---- MODULE Spec2Model ----
(***************************************************************************)
(* A model of the ASUS WRT polling driver:                                 *)
(*   utils.ts   (src/unnamed/part_002)  the client-list diff functions     *)
(*   device.ts  (src/drivers/asuswrt/device.ts)  the per-device projector  *)
(*   driver.ts  (src/unnamed/part_001)  the polling tick updateStateOfDevices *)
(***************************************************************************)
EXTENDS Integers, Sequences, FiniteSets, TLC

(***************************************************************************)
(* Data.  An AsusWRTConnectedDevice is identified by mac; ip and rssi are  *)
(* the attributes that may change while the mac stays the same.            *)
(***************************************************************************)
Macs == {"m1", "m2", "m3"}
\* the (ip, rssi) pairs a client is reported with
Attributes == {<<"ip1", -40>>, <<"ip2", -70>>}
Client == {[mac |-> m, ip |-> a[1], rssi |-> a[2]] : m \in Macs, a \in Attributes}

\* longest client list of the diff specification
MaxLen == 2

ClientLists == UNION {[1..n -> Client] : n \in 0..MaxLen}

\* the registered access points, named by getData().mac
Devices == {"d1", "d2"}

\* a capability value that was never written (Homey returns null)
Null == <<>>
Val(v) == <<v>>

Capabilities == {"meter_online_devices", "meter_cpu_usage", "meter_mem_used",
                 "uptime_days", "external_ip", "alarm_wan_disconnected", "wan_type",
                 "traffic_total_received", "traffic_total_sent",
                 "realtime_download", "realtime_upload"}

VARIABLES
  \* utils.ts called on its own: the two arguments and the two results
  oldList, newList, missingEntities, newEntities, diffDone,
  \* device.ts: the fields of each AsusWRTDevice
  firmwareVersion, newVersion, wiredClients, wireless24GClients, wireless5GClients,
  \* the host's state of each device
  capabilities, capabilityValue, available, unavailableMessage, warning, operationMode,
  \* driver.ts: the fields of AsusWRTDriver and the ticks in progress
  registered, asusClient, connectedClients, ticks,
  updateDevicesPollingInterval, routerIP, username, password, settings, session,
  \* the flow cards triggered by the last step, in order, and the last projector call
  fired, lastCall, wanHistory

diffVars == <<oldList, newList, missingEntities, newEntities, diffDone>>
deviceVars == <<firmwareVersion, newVersion, wiredClients, wireless24GClients, wireless5GClients>>
hostVars == <<capabilities, capabilityValue, available, unavailableMessage, warning, operationMode>>
\* the interval of onInit, the credential fields, the persisted settings, the wizard session
appVars == <<updateDevicesPollingInterval, routerIP, username, password, settings, session>>
driverVars == <<registered, asusClient, connectedClients, ticks, appVars>>
obsVars == <<fired, lastCall, wanHistory>>
vars == <<diffVars, deviceVars, hostVars, driverVars, obsVars>>

(***************************************************************************)
(* utils.ts                                                                *)
(***************************************************************************)
\* newList.some((device2) => device2.mac === device.mac)
someMac(list, device) == \E i \in 1..Len(list) : list[i].mac = device.mac

\* the forEach loop of getMissingConnectedDevices from element i on
RECURSIVE forEachMissing(_, _, _, _)
forEachMissing(oldL, newL, i, acc) ==
  IF i > Len(oldL) THEN acc
  ELSE forEachMissing(oldL, newL, i + 1,
         IF ~someMac(newL, oldL[i]) THEN Append(acc, oldL[i]) ELSE acc)

\* a loop that collects at the front
RECURSIVE forEachMissingFront(_, _, _, _)
forEachMissingFront(oldL, newL, i, acc) ==
  IF i > Len(oldL) THEN acc
  ELSE forEachMissingFront(oldL, newL, i + 1,
         IF ~someMac(newL, oldL[i]) THEN <<oldL[i]>> \o acc ELSE acc)

getMissingConnectedDevices_unshift(oldL, newL) == forEachMissingFront(oldL, newL, 1, <<>>)

getMissingConnectedDevices(oldL, newL) == forEachMissing(oldL, newL, 1, <<>>)

\* the forEach loop of getNewConnectedDevices from element i on
RECURSIVE forEachNew(_, _, _, _)
forEachNew(oldL, newL, i, acc) ==
  IF i > Len(newL) THEN acc
  ELSE forEachNew(oldL, newL, i + 1,
         IF ~someMac(oldL, newL[i]) THEN Append(acc, newL[i]) ELSE acc)

\* a loop that compares whole clients instead of their mac
RECURSIVE forEachNewWhole(_, _, _, _)
forEachNewWhole(oldL, newL, i, acc) ==
  IF i > Len(newL) THEN acc
  ELSE forEachNewWhole(oldL, newL, i + 1,
         IF ~(\E j \in 1..Len(oldL) : oldL[j] = newL[i]) THEN Append(acc, newL[i]) ELSE acc)

getNewConnectedDevices_whole(oldL, newL) == forEachNewWhole(oldL, newL, 1, <<>>)

\* an arrival diff that stays silent while nothing was stored before
getNewConnectedDevices_suppressFirst(oldL, newL) ==
  IF oldL = <<>> THEN <<>> ELSE forEachNew(oldL, newL, 1, <<>>)

getNewConnectedDevices(oldL, newL) == forEachNew(oldL, newL, 1, <<>>)

\* getConnectedDisconnectedToken copies the client's fields
getConnectedDisconnectedToken(device) == device

\* the cards triggered through list.forEach(device => trigger(token))
triggerEach(card, dev, list) == [i \in 1..Len(list) |-> <<card, dev, getConnectedDisconnectedToken(list[i])>>]

(***************************************************************************)
(* device.ts: the projector operations.  Each one states the next value of *)
(* the device fields, of the capability values and of the fired cards.     *)
(***************************************************************************)
\* a device that claims every capability
hasCapability_always(d, cap) == TRUE

hasCapability(d, cap) == cap \in capabilities[d]

\* if (this.hasCapability(cap)) await this.setCapabilityValue(cap, v), applied to the values cv of d
setCapabilityValue(d, cv, cap, v) == IF hasCapability(d, cap) THEN [cv EXCEPT ![cap] = Val(v)] ELSE cv

\* oldWiredClients.concat(oldWireless24GClients, oldWireless5GClients)
concat(a, b, c) == a \o b \o c

\* a count of the distinct macs of the three lists
onlineDevices_distinct(wired, w24, w5) ==
  Cardinality({concat(wired, w24, w5)[i].mac : i \in 1..(Len(wired) + Len(w24) + Len(w5))})

\* the value of meter_online_devices
onlineDevices(wired, w24, w5) == Len(wired) + Len(w24) + Len(w5)

\* the cards setConnectedClients triggers, in the order of lines 53 to 66
\* setConnectedClients with each band diffed against all three lists of the other side:
\* a client that changes band counts as neither departed from nor arrived in a band
setConnectedClientsFired_againstAll(d, wired, w24, w5) ==
  LET oldWired == wiredClients[d]
      old24 == wireless24GClients[d]
      old5 == wireless5GClients[d]
      oldAll == concat(oldWired, old24, old5)
      newAll == concat(wired, w24, w5)
  IN    triggerEach("device-disconnected-from-access-point", d, getMissingConnectedDevices(oldAll, newAll))
     \o triggerEach("device-connected-to-access-point", d, getNewConnectedDevices(oldAll, newAll))
     \o triggerEach("wired-device-disconnected-from-access-point", d, getMissingConnectedDevices(oldWired, newAll))
     \o triggerEach("wired-device-connected-to-access-point", d, getNewConnectedDevices(oldAll, wired))
     \o triggerEach("24g-device-disconnected-from-access-point", d, getMissingConnectedDevices(old24, newAll))
     \o triggerEach("24g-device-connected-to-access-point", d, getNewConnectedDevices(oldAll, w24))
     \o triggerEach("5g-device-disconnected-from-access-point", d, getMissingConnectedDevices(old5, newAll))
     \o triggerEach("5g-device-connected-to-access-point", d, getNewConnectedDevices(oldAll, w5))

\* setConnectedClients whose any-access-point cards are the union of the cards of the
\* three bands: a client that changes band departs and arrives
setConnectedClientsFired_perBand(d, wired, w24, w5) ==
  LET oldWired == wiredClients[d]
      old24 == wireless24GClients[d]
      old5 == wireless5GClients[d]
  IN    triggerEach("device-disconnected-from-access-point", d,
                    concat(getMissingConnectedDevices(oldWired, wired),
                           getMissingConnectedDevices(old24, w24),
                           getMissingConnectedDevices(old5, w5)))
     \o triggerEach("device-connected-to-access-point", d,
                    concat(getNewConnectedDevices(oldWired, wired),
                           getNewConnectedDevices(old24, w24),
                           getNewConnectedDevices(old5, w5)))
     \o triggerEach("wired-device-disconnected-from-access-point", d, getMissingConnectedDevices(oldWired, wired))
     \o triggerEach("wired-device-connected-to-access-point", d, getNewConnectedDevices(oldWired, wired))
     \o triggerEach("24g-device-disconnected-from-access-point", d, getMissingConnectedDevices(old24, w24))
     \o triggerEach("24g-device-connected-to-access-point", d, getNewConnectedDevices(old24, w24))
     \o triggerEach("5g-device-disconnected-from-access-point", d, getMissingConnectedDevices(old5, w5))
     \o triggerEach("5g-device-connected-to-access-point", d, getNewConnectedDevices(old5, w5))

setConnectedClientsFired(d, wired, w24, w5) ==
  LET oldWired == wiredClients[d]
      old24 == wireless24GClients[d]
      old5 == wireless5GClients[d]
      oldAll == concat(oldWired, old24, old5)
      newAll == concat(wired, w24, w5)
  IN    triggerEach("device-disconnected-from-access-point", d, getMissingConnectedDevices(oldAll, newAll))
     \o triggerEach("device-connected-to-access-point", d, getNewConnectedDevices(oldAll, newAll))
     \o triggerEach("wired-device-disconnected-from-access-point", d, getMissingConnectedDevices(oldWired, wired))
     \o triggerEach("wired-device-connected-to-access-point", d, getNewConnectedDevices(oldWired, wired))
     \o triggerEach("24g-device-disconnected-from-access-point", d, getMissingConnectedDevices(old24, w24))
     \o triggerEach("24g-device-connected-to-access-point", d, getNewConnectedDevices(old24, w24))
     \o triggerEach("5g-device-disconnected-from-access-point", d, getMissingConnectedDevices(old5, w5))
     \o triggerEach("5g-device-connected-to-access-point", d, getNewConnectedDevices(old5, w5))

setConnectedClients(d, wired, w24, w5) ==
  /\ wiredClients' = [wiredClients EXCEPT ![d] = wired]
  /\ wireless24GClients' = [wireless24GClients EXCEPT ![d] = w24]
  /\ wireless5GClients' = [wireless5GClients EXCEPT ![d] = w5]
  /\ fired' = setConnectedClientsFired(d, wired, w24, w5)
  /\ capabilityValue' = [capabilityValue EXCEPT ![d] =
       setCapabilityValue(d, @, "meter_online_devices", onlineDevices(wired, w24, w5))]
  /\ UNCHANGED <<firmwareVersion, newVersion>>

\* a condition that also fires when no current version was stored yet
newFirmwareAvailable_noPrior(d, newVer) == newVer # "" /\ newVersion[d] # newVer

\* line 74: this.firmwareVersion !== '' && newVersion !== '' && this.newVersion !== newVersion
newFirmwareAvailable(d, newVer) ==
  firmwareVersion[d] # "" /\ newVer # "" /\ newVersion[d] # newVer

setFirmwareVersion(d, currentVersion, newVer) ==
  /\ fired' = IF newFirmwareAvailable(d, newVer)
              THEN << <<"new-firmware-available", d, newVer>> >> ELSE <<>>
  /\ firmwareVersion' = [firmwareVersion EXCEPT ![d] = currentVersion]
  /\ newVersion' = [newVersion EXCEPT ![d] = newVer]
  /\ UNCHANGED <<wiredClients, wireless24GClients, wireless5GClients, capabilityValue>>

setLoad(d, load) ==
  /\ capabilityValue' = [capabilityValue EXCEPT ![d] =
       setCapabilityValue(d,
         setCapabilityValue(d, @, "meter_cpu_usage", load.CPUUsagePercentage),
         "meter_mem_used", load.MemoryUsagePercentage)]
  /\ fired' = <<>>
  /\ UNCHANGED deviceVars

\* line 92: uptimeSeconds * 0.0000115741, kept exact in units of 10^-10 days
UptimeFactor == 115741
uptimeDays(uptimeSeconds) == uptimeSeconds * UptimeFactor

setUptimeDaysBySeconds(d, uptimeSeconds) ==
  /\ capabilityValue' = [capabilityValue EXCEPT ![d] =
       setCapabilityValue(d, @, "uptime_days", uptimeDays(uptimeSeconds))]
  /\ fired' = <<>>
  /\ UNCHANGED deviceVars

\* a condition that fires on every fetched address
externalIPChanged_always(d, WANStatus) == TRUE

\* line 98: this.getCapabilityValue('external_ip') !== WANStatus.ipaddr
externalIPChanged(d, WANStatus) == capabilityValue[d]["external_ip"] # Val(WANStatus.ipaddr)

\* line 107: this.getCapabilityValue('wan_type') !== WANStatus.type
wanTypeChanged(d, WANStatus) == capabilityValue[d]["wan_type"] # Val(WANStatus.type)

\* the truthiness of the optional number WANStatus.status: undefined and 0 are falsy
truthy(status) == status # Null /\ status[1] # 0

\* line 104: WANStatus.status && WANStatus.status !== 1 ? true : false
wanDisconnected(WANStatus) == truthy(WANStatus.status) /\ WANStatus.status[1] # 1

setWANStatusFired(d, WANStatus) ==
     (IF hasCapability(d, "external_ip") /\ externalIPChanged(d, WANStatus)
      THEN << <<"external-ip-changed", d, WANStatus.ipaddr>> >> ELSE <<>>)
  \o (IF hasCapability(d, "wan_type") /\ wanTypeChanged(d, WANStatus)
      THEN << <<"wan-type-changed", d, WANStatus.type>> >> ELSE <<>>)

setWANStatus(d, WANStatus) ==
  /\ fired' = setWANStatusFired(d, WANStatus)
  /\ capabilityValue' = [capabilityValue EXCEPT ![d] =
       setCapabilityValue(d,
         setCapabilityValue(d,
           setCapabilityValue(d, @, "external_ip", WANStatus.ipaddr),
           "alarm_wan_disconnected", wanDisconnected(WANStatus)),
         "wan_type", WANStatus.type)]
  /\ UNCHANGED deviceVars

\* a download rate that is never negative
realtimeDownload_clamped(trafficDataFirst, trafficDataSecond) ==
  IF trafficDataSecond.trafficReceived < trafficDataFirst.trafficReceived THEN 0
  ELSE trafficDataSecond.trafficReceived - trafficDataFirst.trafficReceived

\* line 122
realtimeDownload(trafficDataFirst, trafficDataSecond) ==
  trafficDataSecond.trafficReceived - trafficDataFirst.trafficReceived

\* line 125
realtimeUpload(trafficDataFirst, trafficDataSecond) ==
  trafficDataSecond.trafficSent - trafficDataFirst.trafficSent

setTrafficValues(d, trafficDataFirst, trafficDataSecond) ==
  /\ capabilityValue' = [capabilityValue EXCEPT ![d] =
       setCapabilityValue(d,
         setCapabilityValue(d,
           setCapabilityValue(d,
             setCapabilityValue(d, @, "traffic_total_received", trafficDataSecond.trafficReceived),
             "traffic_total_sent", trafficDataSecond.trafficSent),
           "realtime_download", realtimeDownload(trafficDataFirst, trafficDataSecond)),
         "realtime_upload", realtimeUpload(trafficDataFirst, trafficDataSecond))]
  /\ fired' = <<>>
  /\ UNCHANGED deviceVars


(***************************************************************************)
(* driver.ts: the credentials.  A string is the sequence of its            *)
(* characters; a field or setting that holds null is Null.                 *)
(***************************************************************************)
Digits == {"0", "1", "2", "3", "4", "5", "6", "7", "8", "9"}

\* the character of s at position i, "" past the end
charAt(s, i) == IF i \in 1..Len(s) THEN s[i] ELSE ""

\* an octet pattern without an upper limit: [0-9]+
octetEnds_anyNumber(s, i) ==
  {j \in (i + 1)..(Len(s) + 1) : \A k \in i..(j - 1) : charAt(s, k) \in Digits}

\* the positions after a match, from position i, of one alternative of
\* ([0-9]|[1-9][0-9]|1[0-9]{2}|2[0-4][0-9]|25[0-5])
octetEnds(s, i) ==
     (IF charAt(s, i) \in Digits THEN {i + 1} ELSE {})
  \cup (IF charAt(s, i) \in Digits \ {"0"} /\ charAt(s, i + 1) \in Digits
       THEN {i + 2} ELSE {})
  \cup (IF charAt(s, i) = "1" /\ charAt(s, i + 1) \in Digits /\ charAt(s, i + 2) \in Digits
       THEN {i + 3} ELSE {})
  \cup (IF charAt(s, i) = "2" /\ charAt(s, i + 1) \in {"0", "1", "2", "3", "4"}
          /\ charAt(s, i + 2) \in Digits
       THEN {i + 3} ELSE {})
  \cup (IF charAt(s, i) = "2" /\ charAt(s, i + 1) = "5"
          /\ charAt(s, i + 2) \in {"0", "1", "2", "3", "4", "5"}
       THEN {i + 3} ELSE {})

\* the positions after a match of (octet\.) from one of the positions from
groupEnds(s, from) ==
  {j + 1 : j \in {k \in UNION {octetEnds(s, i) : i \in from} : charAt(s, k) = "."}}

\* lines 245-246 and 324-325: ipRegex.test(routerIPFromView), the regular expression being
\* ^(octet\.){3}octet$
ipRegexTest(routerIPFromView) ==
  LET s == routerIPFromView
  IN (Len(s) + 1) \in
       UNION {octetEnds(s, i) : i \in groupEnds(s, groupEnds(s, groupEnds(s, {1})))}

Http == <<"h", "t", "t", "p", ":", "/", "/">>

\* String.prototype.trim for the white space " "
RECURSIVE trimStart(_)
trimStart(s) == IF s # <<>> /\ Head(s) = " " THEN trimStart(Tail(s)) ELSE s
RECURSIVE trimEnd(_)
trimEnd(s) == IF s # <<>> /\ s[Len(s)] = " " THEN trimEnd(SubSeq(s, 1, Len(s) - 1)) ELSE s
trim(s) == trimEnd(trimStart(s))

\* homey.settings before anything was stored: get returns null
NoSettings == [ip |-> Null, username |-> Null, password |-> Null]

\* settings stored by an earlier pairing
StoredSettings ==
  [ip |-> Val(Http \o <<"9", ".", "9", ".", "9", ".", "9">>),
   username |-> Val(<<"u">>), password |-> Val(<<"q">>)]

\* the wizard session: the wizard it belongs to (kind), the step handler called last
\* (handler), its argument (input or data), whether it waits for its login probe (pc), what the
\* probe gave (probe), what the handler returned (result), the locals of onRepair, and the
\* settings the handler found (settingsBefore)
NoSession ==
  [kind |-> "none", handler |-> "none", input |-> <<>>, pc |-> "idle", probe |-> Null,
   result |-> "none", newRouterIP |-> <<>>, newUsername |-> <<>>, newPassword |-> <<>>,
   data |-> [username |-> <<>>, password |-> <<>>], settingsBefore |-> NoSettings]

(***************************************************************************)
(* Initial state: the fields as their declarations initialise them         *)
(* (device.ts 26-31, driver 15-18), every device available without a       *)
(* warning, no capability value written yet, no tick started.              *)
(***************************************************************************)
MaxTicks == 2
Ticks == 1..MaxTicks

NoCall == [op |-> "none", dev |-> "", args |-> <<>>, pre |-> <<>>]
NoHistory == [before |-> Null, ips |-> <<>>, fires |-> <<>>]

\* what one tick keeps of one device: where its callback stands, the routerStatus it
\* found, its successfullyUpdatedEverything flag, the state of its Promise.all and the
\* first traffic sample; and, of what happened: the requests the tick sent for the device
\* (issued), the device methods it called (did), the fetches that failed (failed), the
\* access-point cards it fired (cards), the load it fetched (load), and the snapshots,
\* the meter_online_devices value, the warning and the traffic values the tick found
\* (before)
NoDeviceTick == [pc |-> "none", routerStatus |-> Null, successfullyUpdatedEverything |-> TRUE,
                 clients |-> "none", trafficDataFirst |-> Null,
                 issued |-> {}, did |-> {}, failed |-> {}, cards |-> 0, load |-> Null,
                 before |-> Null]

\* what a tick keeps: where updateStateOfDevices stands, its locals oldConnectedClients and
\* routers, whether the inventory fetch threw, how many network cards the tick fired
IdleTick == [pc |-> "idle", oldConnectedClients |-> <<>>, routers |-> Null, threw |-> FALSE,
             notified |-> 0, dev |-> [d \in Devices |-> NoDeviceTick]]

InitCommon ==
  /\ missingEntities = <<>>
  /\ newEntities = <<>>
  /\ diffDone = FALSE
  /\ firmwareVersion = [d \in Devices |-> ""]
  /\ newVersion = [d \in Devices |-> ""]
  /\ wiredClients = [d \in Devices |-> <<>>]
  /\ wireless24GClients = [d \in Devices |-> <<>>]
  /\ wireless5GClients = [d \in Devices |-> <<>>]
  /\ capabilityValue = [d \in Devices |-> [c \in Capabilities |-> Null]]
  /\ available = [d \in Devices |-> TRUE]
  /\ unavailableMessage = [d \in Devices |-> Null]
  /\ warning = [d \in Devices |-> Null]
  /\ connectedClients = <<>>
  /\ session = NoSession
  /\ ticks = [t \in Ticks |-> IdleTick]
  /\ fired = <<>>
  /\ lastCall = NoCall
  /\ wanHistory = NoHistory

(***************************************************************************)
(* SpecDiff: the two diff functions applied to every pair of client lists. *)
(***************************************************************************)
InitDiff ==
  /\ InitCommon
  /\ oldList \in ClientLists
  /\ newList \in ClientLists
  /\ capabilities = [d \in Devices |-> {}]
  /\ operationMode = [d \in Devices |-> "AccessPoint"]
  /\ registered = {}
  /\ asusClient = FALSE
  /\ settings = NoSettings
  /\ routerIP = Val(<<>>)
  /\ username = Val(<<>>)
  /\ password = Val(<<>>)
  /\ updateDevicesPollingInterval = "undefined"

DiffLists ==
  /\ ~diffDone
  /\ missingEntities' = getMissingConnectedDevices(oldList, newList)
  /\ newEntities' = getNewConnectedDevices(oldList, newList)
  /\ diffDone' = TRUE
  /\ UNCHANGED <<oldList, newList, deviceVars, hostVars, driverVars, obsVars>>

NextDiff == DiffLists

SpecDiff == InitDiff /\ [][NextDiff]_vars

macsOf(list) == {list[i].mac : i \in 1..Len(list)}

\* C1: getMissingConnectedDevices(old, new) is the subsequence of old, in old's order, of
\* the clients whose mac is the mac of no client of new; getNewConnectedDevices(old, new)
\* is the subsequence of new, in new's order, of the clients whose mac is the mac of no
\* client of old; when old and new share no mac, departed = old and arrived = new.
C1_DiffIsOrderedSubsequence ==
  diffDone =>
    /\ missingEntities = SelectSeq(oldList, LAMBDA c : c.mac \notin macsOf(newList))
    /\ newEntities = SelectSeq(newList, LAMBDA c : c.mac \notin macsOf(oldList))
    /\ (macsOf(oldList) \cap macsOf(newList) = {} =>
          missingEntities = oldList /\ newEntities = newList)

\* of two old clients the first departs and the second stays (with another ip), and
\* of two new clients the second arrives
C1_Witness ==
  /\ diffDone
  /\ Len(oldList) = 2 /\ Len(newList) = 2
  /\ oldList[2].mac = newList[1].mac /\ oldList[2] # newList[1]
  /\ missingEntities = <<oldList[1]>>
  /\ newEntities = <<newList[2]>>

\* C2: when old and new hold the same set of macs, both results are empty, whatever the
\* order of the lists and whatever the ip and rssi of the clients.
C2_SameMacsNoTransition ==
  (diffDone /\ macsOf(oldList) = macsOf(newList)) =>
    missingEntities = <<>> /\ newEntities = <<>>

\* the same two macs in the other order, one client with another ip and rssi
C2_Witness ==
  /\ diffDone
  /\ Len(oldList) = 2 /\ Len(newList) = 2
  /\ oldList[1].mac = newList[2].mac /\ oldList[2].mac = newList[1].mac
  /\ oldList[1].mac # oldList[2].mac
  /\ oldList[1] # newList[2]
  /\ missingEntities = <<>> /\ newEntities = <<>>


(***************************************************************************)
(* The projector operations called on one device, "d1", in any order and   *)
(* with any arguments: SpecFirmware, SpecWAN and SpecTraffic.  lastCall    *)
(* keeps the arguments of the last call and the fields it found.           *)
(***************************************************************************)
CurrentVersions == {"", "1.0", "1.1"}
AvailableVersions == {"", "1.1", "1.2", "1.3"}

InitDevice(caps) ==
  /\ InitCommon
  /\ oldList = <<>>
  /\ newList = <<>>
  /\ capabilities = [d \in Devices |-> IF d = "d1" THEN caps ELSE {}]
  /\ operationMode = [d \in Devices |-> "Router"]
  /\ registered = {"d1"}
  /\ asusClient = FALSE
  /\ settings = NoSettings
  /\ routerIP = Val(<<>>)
  /\ username = Val(<<>>)
  /\ password = Val(<<>>)
  /\ updateDevicesPollingInterval = "undefined"

CallSetFirmwareVersion(d, currentVersion, newVer) ==
  /\ setFirmwareVersion(d, currentVersion, newVer)
  /\ lastCall' = [op |-> "setFirmwareVersion", dev |-> d,
                  args |-> <<currentVersion, newVer>>,
                  pre |-> <<firmwareVersion[d], newVersion[d]>>]
  /\ UNCHANGED <<diffVars, capabilities, available, unavailableMessage, warning,
                 operationMode, driverVars, wanHistory>>

InitFirmware == InitDevice(Capabilities)

NextFirmware ==
  \E currentVersion \in CurrentVersions, newVer \in AvailableVersions :
    CallSetFirmwareVersion("d1", currentVersion, newVer)

SpecFirmware == InitFirmware /\ [][NextFirmware]_vars

firedCard(card) == \E i \in 1..Len(fired) : fired[i][1] = card

\* C6: a setFirmwareVersion(current, available) call fires new-firmware-available if and
\* only if the current version stored before the call is non-empty, the call's available
\* version is non-empty and it differs from the available version stored before the call;
\* after the call the stored versions are the call's arguments.
C6_FirmwareFiresIff ==
  lastCall.op = "setFirmwareVersion" =>
    /\ firedCard("new-firmware-available") <=>
         (lastCall.pre[1] # "" /\ lastCall.args[2] # "" /\ lastCall.args[2] # lastCall.pre[2])
    /\ firmwareVersion[lastCall.dev] = lastCall.args[1]
    /\ newVersion[lastCall.dev] = lastCall.args[2]

\* a call that fires: 1.0 was stored with 1.1 available, and 1.2 becomes available
C6_Witness ==
  /\ lastCall.op = "setFirmwareVersion"
  /\ lastCall.pre = <<"1.0", "1.1">>
  /\ lastCall.args = <<"1.0", "1.2">>
  /\ fired = << <<"new-firmware-available", "d1", "1.2">> >>
  /\ newVersion["d1"] = "1.2"

(***************************************************************************)
(* SpecWAN.  wanHistory keeps the last five fetched addresses of "d1", for *)
(* each whether external-ip-changed fired, and the external_ip value       *)
(* stored before the first of them.                                        *)
(***************************************************************************)
WanIPs == {"A", "B"}
StatusCodes == {Null, Val(0), Val(1), Val(2)}
WanTypes == {"dhcp", "pppoe"}
WANStatuses == [ipaddr : WanIPs, status : StatusCodes, type : WanTypes]
WanCapabilities == {"external_ip", "alarm_wan_disconnected", "wan_type"}

recordWAN(h, stored, ipaddr, didFire) ==
  IF Len(h.ips) < 5
  THEN [before |-> h.before, ips |-> Append(h.ips, ipaddr), fires |-> Append(h.fires, didFire)]
  ELSE [before |-> Val(h.ips[1]), ips |-> Append(Tail(h.ips), ipaddr),
        fires |-> Append(Tail(h.fires), didFire)]

CallSetWANStatus(d, WANStatus) ==
  /\ setWANStatus(d, WANStatus)
  /\ lastCall' = [op |-> "setWANStatus", dev |-> d, args |-> WANStatus, pre |-> <<>>]
  /\ wanHistory' = recordWAN(wanHistory, capabilityValue[d]["external_ip"], WANStatus.ipaddr,
                             \E i \in 1..Len(fired') : fired'[i][1] = "external-ip-changed")
  /\ UNCHANGED <<diffVars, capabilities, available, unavailableMessage, warning,
                 operationMode, driverVars>>

InitWAN == \E caps \in SUBSET WanCapabilities : InitDevice(caps)

NextWAN == \E WANStatus \in WANStatuses : CallSetWANStatus("d1", WANStatus)

SpecWAN == InitWAN /\ [][NextWAN]_vars

countTrue(bs) == Cardinality({i \in 1..Len(bs) : bs[i]})

\* the value stored before call i of the history
storedBefore(h, i) == IF i = 1 THEN h.before ELSE Val(h.ips[i - 1])

\* C7 as stated: for the fetched addresses A, A, B, B, A the card fires exactly twice.
C7_FiresTwiceOnAABBA ==
  (hasCapability("d1", "external_ip") /\ wanHistory.ips = <<"A", "A", "B", "B", "A">>) =>
    countTrue(wanHistory.fires) = 2

\* C7 amended: on a device with external_ip the card fires on a call exactly when the
\* fetched address differs from the value stored before the call, and the stored value is
\* the fetched one after every call; for A, A, B, B, A it fires twice when A was stored
\* before the first of the five calls and three times otherwise.
C7_FiresOnChangeOfStored ==
  (hasCapability("d1", "external_ip") /\ wanHistory.ips # <<>>) =>
    /\ \A i \in 1..Len(wanHistory.ips) :
         wanHistory.fires[i] <=> (storedBefore(wanHistory, i) # Val(wanHistory.ips[i]))
    /\ capabilityValue["d1"]["external_ip"] = Val(wanHistory.ips[Len(wanHistory.ips)])
    /\ (wanHistory.ips = <<"A", "A", "B", "B", "A">> =>
          countTrue(wanHistory.fires) = IF wanHistory.before = Val("A") THEN 2 ELSE 3)

\* the five addresses fetched after A was stored: two firings
C7_Witness ==
  /\ hasCapability("d1", "external_ip")
  /\ wanHistory.ips = <<"A", "A", "B", "B", "A">>
  /\ wanHistory.before = Val("A")
  /\ wanHistory.fires = <<FALSE, FALSE, TRUE, FALSE, TRUE>>
  /\ capabilityValue["d1"]["external_ip"] = Val("A")

\* C8: on a device with alarm_wan_disconnected, setWANStatus writes true exactly when a
\* status code is present and is not 1, for every status code including 0.
C8_AlarmIffStatusNotConnected ==
  (lastCall.op = "setWANStatus" /\ hasCapability("d1", "alarm_wan_disconnected")) =>
    capabilityValue["d1"]["alarm_wan_disconnected"] =
      Val(lastCall.args.status # Null /\ lastCall.args.status # Val(1))

(***************************************************************************)
(* SpecTraffic                                                             *)
(***************************************************************************)
ReceivedCounters == {0, 1000, 1250}
SentCounters == {0, 500, 600}
TrafficSamples == [trafficReceived : ReceivedCounters, trafficSent : SentCounters]
TrafficCapabilities == {"traffic_total_received", "traffic_total_sent",
                        "realtime_download", "realtime_upload"}

CallSetTrafficValues(d, trafficDataFirst, trafficDataSecond) ==
  /\ setTrafficValues(d, trafficDataFirst, trafficDataSecond)
  /\ lastCall' = [op |-> "setTrafficValues", dev |-> d,
                  args |-> <<trafficDataFirst, trafficDataSecond>>, pre |-> <<>>]
  /\ UNCHANGED <<diffVars, capabilities, available, unavailableMessage, warning,
                 operationMode, driverVars, wanHistory>>

InitTraffic == \E caps \in SUBSET TrafficCapabilities : InitDevice(caps)

NextTraffic ==
  \E trafficDataFirst \in TrafficSamples, trafficDataSecond \in TrafficSamples :
    CallSetTrafficValues("d1", trafficDataFirst, trafficDataSecond)

SpecTraffic == InitTraffic /\ [][NextTraffic]_vars

\* C9: setTrafficValues writes the second sample's counters as totals and the differences
\* second - first as realtime values, a negative difference included, each on a device
\* that has the capability.
C9_TrafficValues ==
  lastCall.op = "setTrafficValues" =>
    LET first == lastCall.args[1]
        second == lastCall.args[2]
        cv == capabilityValue["d1"]
        has(cap) == hasCapability("d1", cap)
    IN /\ has("traffic_total_received") => cv["traffic_total_received"] = Val(second.trafficReceived)
       /\ has("traffic_total_sent") => cv["traffic_total_sent"] = Val(second.trafficSent)
       /\ has("realtime_download") =>
            cv["realtime_download"] = Val(second.trafficReceived - first.trafficReceived)
       /\ has("realtime_upload") =>
            cv["realtime_upload"] = Val(second.trafficSent - first.trafficSent)

\* a counter that went back from 1250 to 1000: the download rate written is -250
C9_Witness ==
  /\ lastCall.op = "setTrafficValues"
  /\ capabilities["d1"] = TrafficCapabilities
  /\ lastCall.args[1] = [trafficReceived |-> 1250, trafficSent |-> 500]
  /\ lastCall.args[2] = [trafficReceived |-> 1000, trafficSent |-> 600]
  /\ capabilityValue["d1"]["realtime_download"] = Val(-250)
  /\ capabilityValue["d1"]["realtime_upload"] = Val(100)
  /\ capabilityValue["d1"]["traffic_total_received"] = Val(1000)


(***************************************************************************)
(* SpecClients: setConnectedClients called again and again on one device,  *)
(* with and without meter_online_devices; a client may be in two lists.    *)
(***************************************************************************)
CallSetConnectedClients(d, wired, w24, w5) ==
  /\ setConnectedClients(d, wired, w24, w5)
  /\ lastCall' = [op |-> "setConnectedClients", dev |-> d, args |-> <<wired, w24, w5>>,
                  pre |-> <<wiredClients[d], wireless24GClients[d], wireless5GClients[d]>>]
  /\ UNCHANGED <<diffVars, capabilities, available, unavailableMessage, warning,
                 operationMode, driverVars, wanHistory>>

\* the client with mac m as the access point reports it
client(m) == [mac |-> m, ip |-> "ip1", rssi |-> -40]

WiredLists == {<<>>, <<client("m1")>>, <<client("m1"), client("m2")>>,
               <<client("m2"), client("m1")>>}
Wireless24GLists == {<<>>, <<client("m1")>>, <<client("m3")>>}
Wireless5GLists == {<<>>, <<client("m2")>>, <<client("m3"), client("m3")>>}

InitClients == \E caps \in SUBSET {"meter_online_devices"} : InitDevice(caps)

NextClients ==
  \E wired \in WiredLists, w24 \in Wireless24GLists, w5 \in Wireless5GLists :
    CallSetConnectedClients("d1", wired, w24, w5)

SpecClients == InitClients /\ [][NextClients]_vars

\* C18: after a setConnectedClients(wired, w24, w5) call, the first one included, the three
\* stored snapshots are the three passed lists, and meter_online_devices, on a device
\* that has it, is the sum of their lengths; on a device without it, it is never written.
C18_SnapshotsAndCountAfterCall ==
  lastCall.op = "setConnectedClients" =>
    /\ wiredClients["d1"] = lastCall.args[1]
    /\ wireless24GClients["d1"] = lastCall.args[2]
    /\ wireless5GClients["d1"] = lastCall.args[3]
    /\ capabilityValue["d1"]["meter_online_devices"] =
         IF "meter_online_devices" \in capabilities["d1"]
         THEN Val(Len(lastCall.args[1]) + Len(lastCall.args[2]) + Len(lastCall.args[3]))
         ELSE Null

\* the first call of a device, with m1 both wired and on 2.4 GHz: four entries
C18_Witness ==
  /\ lastCall.op = "setConnectedClients"
  /\ lastCall.pre = <<<<>>, <<>>, <<>>>>
  /\ lastCall.args = <<<<client("m1"), client("m2")>>, <<client("m1")>>, <<client("m2")>>>>
  /\ wiredClients["d1"] = <<client("m1"), client("m2")>>
  /\ capabilityValue["d1"]["meter_online_devices"] = Val(4)

(***************************************************************************)
(* SpecProjector: the five projector operations called in any order on a   *)
(* device that has every capability, every capability but one, one         *)
(* capability, or none.                                                    *)
(***************************************************************************)
CallSetLoad(d, load) ==
  /\ setLoad(d, load)
  /\ lastCall' = [op |-> "setLoad", dev |-> d, args |-> load, pre |-> <<>>]
  /\ UNCHANGED <<diffVars, capabilities, available, unavailableMessage, warning,
                 operationMode, driverVars, wanHistory>>

CallSetUptimeDaysBySeconds(d, uptimeSeconds) ==
  /\ setUptimeDaysBySeconds(d, uptimeSeconds)
  /\ lastCall' = [op |-> "setUptimeDaysBySeconds", dev |-> d, args |-> uptimeSeconds,
                  pre |-> <<>>]
  /\ UNCHANGED <<diffVars, capabilities, available, unavailableMessage, warning,
                 operationMode, driverVars, wanHistory>>

\* setWANStatus without the record of the addresses fetched so far
CallSetWANStatusOnce(d, WANStatus) ==
  /\ setWANStatus(d, WANStatus)
  /\ lastCall' = [op |-> "setWANStatus", dev |-> d, args |-> WANStatus, pre |-> <<>>]
  /\ UNCHANGED <<diffVars, capabilities, available, unavailableMessage, warning,
                 operationMode, driverVars, wanHistory>>

CapabilitySets ==
  {{}, Capabilities} \cup {{c} : c \in Capabilities} \cup {Capabilities \ {c} : c \in Capabilities}

InitProjector == \E caps \in CapabilitySets : InitDevice(caps)

NextProjector ==
  \/ \E wired \in {<<>>, <<client("m1")>>} : CallSetConnectedClients("d1", wired, <<>>, <<>>)
  \/ CallSetLoad("d1", [CPUUsagePercentage |-> 10, MemoryUsagePercentage |-> 20])
  \/ CallSetUptimeDaysBySeconds("d1", 3600)
  \/ \E WANStatus \in {[ipaddr |-> "A", status |-> Val(2), type |-> "dhcp"],
                        [ipaddr |-> "B", status |-> Val(1), type |-> "pppoe"]} :
       CallSetWANStatusOnce("d1", WANStatus)
  \/ CallSetTrafficValues("d1", [trafficReceived |-> 1000, trafficSent |-> 500],
                                [trafficReceived |-> 1250, trafficSent |-> 600])

SpecProjector == InitProjector /\ [][NextProjector]_vars

\* C16: whatever projector operations were called, a capability the device does not have
\* has no value written, and a device without external_ip or without wan_type fires no
\* external-ip-changed or wan-type-changed card.
C16_OnlyOwnCapabilitiesWritten ==
  /\ \A cap \in Capabilities \ capabilities["d1"] : capabilityValue["d1"][cap] = Null
  /\ "external_ip" \notin capabilities["d1"] =>
       \A i \in 1..Len(fired) : fired[i][1] # "external-ip-changed"
  /\ "wan_type" \notin capabilities["d1"] =>
       \A i \in 1..Len(fired) : fired[i][1] # "wan-type-changed"

\* on a device with every capability but external_ip, setWANStatus brought a new address
\* and a new type: the type is written and its card fired, the address is not
C16_Witness ==
  /\ capabilities["d1"] = Capabilities \ {"external_ip"}
  /\ lastCall.op = "setWANStatus" /\ lastCall.args.ipaddr = "B"
  /\ capabilityValue["d1"]["wan_type"] = Val("pppoe")
  /\ capabilityValue["d1"]["alarm_wan_disconnected"] = Val(FALSE)
  /\ capabilityValue["d1"]["external_ip"] = Null
  /\ capabilityValue["d1"]["meter_cpu_usage"] = Val(10)
  /\ capabilityValue["d1"]["realtime_download"] = Val(250)
  /\ fired = << <<"wan-type-changed", "d1", "pppoe">> >>

(***************************************************************************)
(* driver.ts: updateStateOfDevices.  A tick runs in a slot of ticks; each  *)
(* action below is one continuation of the tick, from one await to the     *)
(* next.  A capability write, setAvailable, setUnavailable and setWarning  *)
(* take effect when they are called.                                       *)
(***************************************************************************)
NetworkNotAvailable == "Network not available to receive requests"
DeviceNotOnline == "Device not online"
FailedToRetrieve == "Failed to retrieve (some) device info, some functionality might not work"

\* the tick of slot t and the callback of device d have nothing left to run or to wait for
deviceSettled(rec) == rec.pc \in {"none", "skipped", "threw", "done"} /\ rec.clients # "pending"
settled(t) ==
  \/ ticks[t].pc \in {"idle", "aborted"}
  \/ ticks[t].pc = "devices" /\ \A d \in Devices : deviceSettled(ticks[t].dev[d])

\* line 42: routers.find(client => client.mac === routerMac), Null for undefined
RECURSIVE findFrom(_, _, _)
findFrom(routers, routerMac, i) ==
  IF i > Len(routers) THEN Null
  ELSE IF routers[i].mac = routerMac THEN Val(routers[i])
  ELSE findFrom(routers, routerMac, i + 1)
find(routers, routerMac) == findFrom(routers, routerMac, 1)

\* a device set available whenever the inventory lists its mac
isOnline_listed(routerStatus) == routerStatus # Null

\* line 43: routerStatus && routerStatus.online
isOnline(routerStatus) == routerStatus # Null /\ routerStatus[1].online

\* lines 36-37: the network cards of the diff of the two global snapshots
networkFired(oldConnectedClients, clients) ==
     triggerEach("device-disconnected-from-network", "", getMissingConnectedDevices(oldConnectedClients, clients))
  \o triggerEach("device-connected-to-network", "", getNewConnectedDevices(oldConnectedClients, clients))

\* lines 39-43 for device d: the callback runs to its first await
startDevice(d, routers) ==
  LET routerStatus == find(routers, d)
  IN [NoDeviceTick EXCEPT !.pc = "setAvailability", !.routerStatus = routerStatus,
        !.did = IF isOnline(routerStatus) THEN {"setAvailable"} ELSE {"setUnavailable"},
        !.before = Val([wired |-> wiredClients[d], w24 |-> wireless24GClients[d],
                        w5 |-> wireless5GClients[d],
                        meter |-> capabilityValue[d]["meter_online_devices"],
                        warning |-> warning[d],
                        traffic |-> [c \in TrafficCapabilities |-> capabilityValue[d][c]]])]

\* lines 36-43: the network diff, then every registered device's callback up to its
\* first await; tick is the tick's record so far
fanOut(t, tick, routers, clients) ==
  /\ fired' = networkFired(tick.oldConnectedClients, clients)
  /\ available' = [d \in Devices |->
       IF d \in registered THEN isOnline(find(routers, d)) ELSE available[d]]
  /\ unavailableMessage' = [d \in Devices |->
       IF d \in registered
       THEN (IF isOnline(find(routers, d)) THEN Null ELSE Val(DeviceNotOnline))
       ELSE unavailableMessage[d]]
  /\ ticks' = [ticks EXCEPT ![t] =
       [tick EXCEPT !.pc = "devices", !.routers = Val(routers),
          !.notified = Len(networkFired(tick.oldConnectedClients, clients)),
          !.dev = [d \in Devices |->
             IF d \in registered THEN startDevice(d, routers) ELSE NoDeviceTick]]]

\* a catch without its return: the tick goes on to lines 36-43 with the routers it has
inventoryFailed_noReturn(t) ==
  /\ ticks[t].pc \in {"getRouters", "getAllClients"}
  /\ fanOut(t, [ticks[t] EXCEPT !.threw = TRUE],
            IF ticks[t].routers = Null THEN <<>> ELSE ticks[t].routers[1], connectedClients)
  /\ UNCHANGED <<diffVars, deviceVars, capabilities, capabilityValue, warning, operationMode,
                 registered, asusClient, appVars, connectedClients, lastCall, wanHistory>>

\* lines 30-33: the catch of the inventory fetch
inventoryFailed(t) ==
  /\ ticks[t].pc \in {"getRouters", "getAllClients"}
  /\ available' = [d \in Devices |-> IF d \in registered THEN FALSE ELSE available[d]]
  /\ unavailableMessage' = [d \in Devices |->
       IF d \in registered THEN Val(NetworkNotAvailable) ELSE unavailableMessage[d]]
  /\ ticks' = [ticks EXCEPT ![t].pc = "aborted", ![t].threw = TRUE, ![t].routers = Null]
  /\ fired' = <<>>
  /\ UNCHANGED <<diffVars, deviceVars, capabilities, capabilityValue, warning, operationMode,
                 registered, asusClient, appVars, connectedClients, lastCall, wanHistory>>

\* an interval that fires once
intervalFires_once ==
  updateDevicesPollingInterval = "running" /\ \A t \in Ticks : ticks[t].pc = "idle"

\* lines 209-211 and 218: the interval set by onInit fires until onUninit clears it
intervalFires == updateDevicesPollingInterval = "running"

\* lines 209-211 and 24-28: the timer starts a tick in the first free slot
TimerFire(t) ==
  /\ intervalFires
  /\ settled(t)
  /\ \A u \in Ticks : u < t => ~settled(u)
  /\ LET tick == [IdleTick EXCEPT !.oldConnectedClients = connectedClients]
     IN IF asusClient
        THEN /\ ticks' = [ticks EXCEPT ![t] = [tick EXCEPT !.pc = "getRouters"]]
             /\ fired' = <<>>
             /\ UNCHANGED <<available, unavailableMessage>>
        ELSE fanOut(t, tick, <<>>, connectedClients)
  /\ UNCHANGED <<diffVars, deviceVars, capabilities, capabilityValue, warning, operationMode,
                 registered, asusClient, appVars, connectedClients, lastCall, wanHistory>>

\* the timer fires when the tick before has nothing left to wait for
TimerFireAlone(t) == (\A u \in Ticks : settled(u)) /\ TimerFire(t)

\* line 28 resolves
GetRoutersFetched(t, routers) ==
  /\ ticks[t].pc = "getRouters"
  /\ ticks' = [ticks EXCEPT ![t].pc = "getAllClients", ![t].routers = Val(routers)]
  /\ fired' = <<>>
  /\ UNCHANGED <<diffVars, deviceVars, hostVars, registered, asusClient, appVars, connectedClients,
                 lastCall, wanHistory>>

\* line 28 throws
GetRoutersFailed(t) == ticks[t].pc = "getRouters" /\ inventoryFailed(t)

\* line 29 resolves, then lines 36-43
GetAllClientsFetched(t, clients) ==
  /\ ticks[t].pc = "getAllClients"
  /\ connectedClients' = clients
  /\ fanOut(t, ticks[t], ticks[t].routers[1], clients)
  /\ UNCHANGED <<diffVars, deviceVars, capabilities, capabilityValue, warning, operationMode,
                 registered, asusClient, appVars, lastCall, wanHistory>>

\* line 29 throws
GetAllClientsFailed(t) == ticks[t].pc = "getAllClients" /\ inventoryFailed(t)

\* a warning that is set and never cleared
setWarning_sticky(d, successfullyUpdatedEverything) ==
  warning' = [warning EXCEPT ![d] =
    IF ~successfullyUpdatedEverything THEN Val(FailedToRetrieve) ELSE @]

\* lines 96-100, with the flag as it is when the callback gets there
setWarning(d, successfullyUpdatedEverything) ==
  warning' = [warning EXCEPT ![d] =
    IF ~successfullyUpdatedEverything THEN Val(FailedToRetrieve) ELSE Null]

\* lines 44-60: after the await of line 43, up to the await of getCPUMemoryLoad
DeviceContinue(t, d) ==
  LET rec == ticks[t].dev[d]
      routerStatus == rec.routerStatus
      hasFirmware == routerStatus # Null /\ routerStatus[1].firmwareVersion # ""
  IN
  /\ ticks[t].pc = "devices"
  /\ rec.pc = "setAvailability"
  /\ IF ~available[d]
     THEN /\ ticks' = [ticks EXCEPT ![t].dev[d].pc = "skipped"]
          /\ fired' = <<>>
          /\ UNCHANGED <<deviceVars, capabilityValue>>
     ELSE /\ IF hasFirmware
             THEN setFirmwareVersion(d, routerStatus[1].firmwareVersion,
                                     routerStatus[1].newFirmwareVersion)
             ELSE fired' = <<>> /\ UNCHANGED <<deviceVars, capabilityValue>>
          /\ ticks' = [ticks EXCEPT ![t].dev[d] =
               IF asusClient
               THEN [rec EXCEPT !.pc = "load",
                       !.successfullyUpdatedEverything = TRUE, !.clients = "pending",
                       !.issued = {"clients", "load"},
                       !.did = @ \cup (IF hasFirmware THEN {"setFirmwareVersion"} ELSE {})]
               ELSE [rec EXCEPT !.pc = "threw",
                       !.did = @ \cup (IF hasFirmware THEN {"setFirmwareVersion"} ELSE {})]]
  /\ UNCHANGED <<diffVars, capabilities, available, unavailableMessage, warning, operationMode,
                 registered, asusClient, appVars, connectedClients, lastCall, wanHistory>>

\* a call that diffs against the snapshots its tick found when it started
ClientsFetched_stale(t, d, wired, w24, w5) ==
  /\ ticks[t].dev[d].clients = "pending"
  /\ wiredClients' = [wiredClients EXCEPT ![d] = wired]
  /\ wireless24GClients' = [wireless24GClients EXCEPT ![d] = w24]
  /\ wireless5GClients' = [wireless5GClients EXCEPT ![d] = w5]
  /\ LET found == ticks[t].dev[d].before[1]
     IN fired' =
             triggerEach("wired-device-disconnected-from-access-point", d,
                         getMissingConnectedDevices(found.wired, wired))
          \o triggerEach("wired-device-connected-to-access-point", d,
                         getNewConnectedDevices(found.wired, wired))
  /\ capabilityValue' = [capabilityValue EXCEPT ![d] =
       setCapabilityValue(d, @, "meter_online_devices", onlineDevices(wired, w24, w5))]
  /\ ticks' = [ticks EXCEPT ![t].dev[d].clients = "resolved",
                            ![t].dev[d].did = @ \cup {"setConnectedClients"},
                            ![t].dev[d].cards = @ + Len(fired')]
  /\ UNCHANGED <<firmwareVersion, newVersion>>
  /\ UNCHANGED <<diffVars, capabilities, available, unavailableMessage, warning, operationMode,
                 registered, asusClient, appVars, connectedClients, lastCall, wanHistory>>

\* lines 52-53: the three client-list fetches resolved
ClientsFetched(t, d, wired, w24, w5) ==
  /\ ticks[t].dev[d].clients = "pending"
  /\ setConnectedClients(d, wired, w24, w5)
  /\ ticks' = [ticks EXCEPT ![t].dev[d].clients = "resolved",
                            ![t].dev[d].did = @ \cup {"setConnectedClients"},
                            ![t].dev[d].cards = @ + Len(fired')]
  /\ UNCHANGED <<diffVars, capabilities, available, unavailableMessage, warning, operationMode,
                 registered, asusClient, appVars, connectedClients, lastCall, wanHistory>>

\* line 55: the flag after the catch of the client-list fetches
clientsCatch(successfullyUpdatedEverything) == FALSE

\* a rejection handled as three empty client lists
ClientsFailed_emptyLists(t, d, scope) ==
  /\ ticks[t].dev[d].clients = "pending"
  /\ setConnectedClients(d, <<>>, <<>>, <<>>)
  /\ ticks' = [ticks EXCEPT ![t].dev[d].clients = "rejected",
                            ![t].dev[d].successfullyUpdatedEverything = FALSE,
                            ![t].dev[d].failed = @ \cup {scope}]
  /\ UNCHANGED <<diffVars, capabilities, available, unavailableMessage, warning, operationMode,
                 registered, asusClient, appVars, connectedClients, lastCall, wanHistory>>

\* lines 54-57: one of the three client-list fetches rejected
ClientsFailed(t, d, scope) ==
  /\ ticks[t].dev[d].clients = "pending"
  /\ ticks' = [ticks EXCEPT ![t].dev[d].clients = "rejected",
                            ![t].dev[d].successfullyUpdatedEverything = clientsCatch(@),
                            ![t].dev[d].failed = @ \cup {scope}]
  /\ fired' = <<>>
  /\ UNCHANGED <<diffVars, deviceVars, hostVars, registered, asusClient, appVars, connectedClients,
                 lastCall, wanHistory>>

\* the callback of d in tick t, whose record is rec, goes on to next, with the flag and
\* what it did, saw fail and requested; at "done" it writes the warning of lines 96-100
advance(t, d, rec, next, ok, didNow, failedNow, issuedNow) ==
  LET flag == rec.successfullyUpdatedEverything /\ ok
  IN /\ ticks' = [ticks EXCEPT ![t].dev[d] =
          [rec EXCEPT !.pc = next, !.successfullyUpdatedEverything = flag,
             !.did = @ \cup didNow \cup (IF next = "done" THEN {"setWarning"} ELSE {}),
             !.failed = @ \cup failedNow, !.issued = @ \cup issuedNow]]
     /\ IF next = "done" THEN setWarning(d, flag) ELSE UNCHANGED warning

\* a callback that goes on to the WAN step for every device
afterUptime_always(d) == "wan"

\* where the callback goes after the uptime step: line 76
afterUptime(d) == IF operationMode[d] = "Router" THEN "wan" ELSE "done"

\* lines 60-61 and 68 (the next request)
LoadFetched(t, d, load) ==
  /\ ticks[t].dev[d].pc = "load"
  /\ setLoad(d, load)
  /\ advance(t, d, [ticks[t].dev[d] EXCEPT !.load = Val(load)], "uptime", TRUE,
             {"setLoad"}, {}, {"uptime"})
  /\ UNCHANGED <<diffVars, capabilities, available, unavailableMessage, operationMode,
                 registered, asusClient, appVars, connectedClients, lastCall, wanHistory>>

\* a load failure that ends the callback
LoadFailed_return(t, d) ==
  /\ ticks[t].dev[d].pc = "load"
  /\ advance(t, d, ticks[t].dev[d], "done", FALSE, {}, {"load"}, {})
  /\ fired' = <<>>
  /\ UNCHANGED <<diffVars, deviceVars, capabilities, capabilityValue, available,
                 unavailableMessage, operationMode, registered, asusClient, appVars, connectedClients,
                 lastCall, wanHistory>>

\* lines 62-65 and 68
LoadFailed(t, d) ==
  /\ ticks[t].dev[d].pc = "load"
  /\ advance(t, d, ticks[t].dev[d], "uptime", FALSE, {}, {"load"}, {"uptime"})
  /\ fired' = <<>>
  /\ UNCHANGED <<diffVars, deviceVars, capabilities, capabilityValue, available,
                 unavailableMessage, operationMode, registered, asusClient, appVars, connectedClients,
                 lastCall, wanHistory>>

\* lines 68-69, then line 76
UptimeFetched(t, d, uptimeSeconds) ==
  /\ ticks[t].dev[d].pc = "uptime"
  /\ setUptimeDaysBySeconds(d, uptimeSeconds)
  /\ advance(t, d, ticks[t].dev[d], afterUptime(d), TRUE, {"setUptimeDaysBySeconds"}, {},
             IF afterUptime(d) = "wan" THEN {"wan"} ELSE {})
  /\ UNCHANGED <<diffVars, capabilities, available, unavailableMessage, operationMode,
                 registered, asusClient, appVars, connectedClients, lastCall, wanHistory>>

\* lines 70-73, then line 76
UptimeFailed(t, d) ==
  /\ ticks[t].dev[d].pc = "uptime"
  /\ advance(t, d, ticks[t].dev[d], afterUptime(d), FALSE, {}, {"uptime"},
             IF afterUptime(d) = "wan" THEN {"wan"} ELSE {})
  /\ fired' = <<>>
  /\ UNCHANGED <<diffVars, deviceVars, capabilities, capabilityValue, available,
                 unavailableMessage, operationMode, registered, asusClient, appVars, connectedClients,
                 lastCall, wanHistory>>

\* lines 78-79 and 86
WANStatusFetched(t, d, WANStatus) ==
  /\ ticks[t].dev[d].pc = "wan"
  /\ setWANStatus(d, WANStatus)
  /\ advance(t, d, ticks[t].dev[d], "traffic1", TRUE, {"setWANStatus"}, {}, {"traffic1"})
  /\ UNCHANGED <<diffVars, capabilities, available, unavailableMessage, operationMode,
                 registered, asusClient, appVars, connectedClients, lastCall, wanHistory>>

\* lines 80-83 and 86
WANStatusFailed(t, d) ==
  /\ ticks[t].dev[d].pc = "wan"
  /\ advance(t, d, ticks[t].dev[d], "traffic1", FALSE, {}, {"wan"}, {"traffic1"})
  /\ fired' = <<>>
  /\ UNCHANGED <<diffVars, deviceVars, capabilities, capabilityValue, available,
                 unavailableMessage, operationMode, registered, asusClient, appVars, connectedClients,
                 lastCall, wanHistory>>

\* line 86 resolves: the callback waits (line 87)
TrafficFirstFetched(t, d, trafficData) ==
  /\ ticks[t].dev[d].pc = "traffic1"
  /\ ticks' = [ticks EXCEPT ![t].dev[d].pc = "wait",
                            ![t].dev[d].trafficDataFirst = Val(trafficData)]
  /\ fired' = <<>>
  /\ UNCHANGED <<diffVars, deviceVars, hostVars, registered, asusClient, appVars, connectedClients,
                 lastCall, wanHistory>>

\* a failed first sample after which the second one is requested all the same
TrafficFirstFailed_goesOn(t, d) ==
  /\ ticks[t].dev[d].pc = "traffic1"
  /\ ticks' = [ticks EXCEPT ![t].dev[d].pc = "traffic2",
                            ![t].dev[d].successfullyUpdatedEverything = FALSE,
                            ![t].dev[d].failed = @ \cup {"traffic"},
                            ![t].dev[d].trafficDataFirst = Val([trafficReceived |-> 0, trafficSent |-> 0]),
                            ![t].dev[d].issued = @ \cup {"traffic2"}]
  /\ fired' = <<>>
  /\ UNCHANGED <<diffVars, deviceVars, hostVars, registered, asusClient, appVars,
                 connectedClients, lastCall, wanHistory>>

\* line 86 throws: lines 90-93, then 96-100
TrafficFirstFailed(t, d) ==
  /\ ticks[t].dev[d].pc = "traffic1"
  /\ advance(t, d, ticks[t].dev[d], "done", FALSE, {}, {"traffic"}, {})
  /\ fired' = <<>>
  /\ UNCHANGED <<diffVars, deviceVars, capabilities, capabilityValue, available,
                 unavailableMessage, operationMode, registered, asusClient, appVars, connectedClients,
                 lastCall, wanHistory>>

\* line 87 elapses, line 88 sends the second request
WaitElapsed(t, d) ==
  /\ ticks[t].dev[d].pc = "wait"
  /\ ticks' = [ticks EXCEPT ![t].dev[d].pc = "traffic2",
                            ![t].dev[d].issued = @ \cup {"traffic2"}]
  /\ fired' = <<>>
  /\ UNCHANGED <<diffVars, deviceVars, hostVars, registered, asusClient, appVars, connectedClients,
                 lastCall, wanHistory>>

\* lines 88-89, then 96-100
TrafficSecondFetched(t, d, trafficData) ==
  /\ ticks[t].dev[d].pc = "traffic2"
  /\ setTrafficValues(d, ticks[t].dev[d].trafficDataFirst[1], trafficData)
  /\ advance(t, d, ticks[t].dev[d], "done", TRUE, {"setTrafficValues"}, {}, {})
  /\ UNCHANGED <<diffVars, capabilities, available, unavailableMessage, operationMode,
                 registered, asusClient, appVars, connectedClients, lastCall, wanHistory>>

\* line 88 throws: lines 90-93, then 96-100
TrafficSecondFailed(t, d) ==
  /\ ticks[t].dev[d].pc = "traffic2"
  /\ advance(t, d, ticks[t].dev[d], "done", FALSE, {}, {"traffic"}, {})
  /\ fired' = <<>>
  /\ UNCHANGED <<diffVars, deviceVars, capabilities, capabilityValue, available,
                 unavailableMessage, operationMode, registered, asusClient, appVars, connectedClients,
                 lastCall, wanHistory>>


(***************************************************************************)
(* The polling specifications.  The timer fires when the tick before has   *)
(* nothing left to wait for, and every fetch resolves with one of the      *)
(* values of in, or fails.                                                 *)
(***************************************************************************)
routerOf(d, online, fw, newFw) ==
  [mac |-> d, online |-> online, firmwareVersion |-> fw, newFirmwareVersion |-> newFw]

\* the inventories over the statuses st1 of "d1" and st2 of "d2": each device is listed
\* at most once, or not at all
inventoriesOf(st1, st2) ==
  {<<>>} \cup {<<r>> : r \in st1 \cup st2}
         \cup {<<r1, r2>> : r1 \in st1, r2 \in st2}

InitPolling(reg, caps) ==
  /\ InitCommon
  /\ oldList = <<>>
  /\ newList = <<>>
  /\ capabilities = caps
  /\ operationMode = [d \in Devices |-> IF d = "d1" THEN "Router" ELSE "AccessPoint"]
  /\ registered = reg
  /\ asusClient \in BOOLEAN
  /\ settings = (IF asusClient THEN StoredSettings ELSE NoSettings)
  /\ routerIP = settings.ip
  /\ username = settings.username
  /\ password = settings.password
  /\ updateDevicesPollingInterval = "running"

\* the continuations of the inventory fetch of lines 28-29
FetchesInventory(in) ==
  \/ \E t \in Ticks, routers \in in.routers : GetRoutersFetched(t, routers)
  \/ \E t \in Ticks : GetRoutersFailed(t)
  \/ \E t \in Ticks, clients \in in.clients : GetAllClientsFetched(t, clients)
  \/ \E t \in Ticks : GetAllClientsFailed(t)

\* the continuations of a device's callback up to line 76
FetchesDevice(in) ==
  \/ \E t \in Ticks, d \in Devices : DeviceContinue(t, d)
  \/ \E t \in Ticks, d \in Devices, wired \in in.wired, w24 \in in.w24, w5 \in in.w5 :
       ClientsFetched(t, d, wired, w24, w5)
  \/ \E t \in Ticks, d \in Devices, scope \in in.scopes : ClientsFailed(t, d, scope)
  \/ \E t \in Ticks, d \in Devices, load \in in.loads : LoadFetched(t, d, load)
  \/ \E t \in Ticks, d \in Devices : LoadFailed(t, d)
  \/ \E t \in Ticks, d \in Devices, uptimeSeconds \in in.uptimes : UptimeFetched(t, d, uptimeSeconds)
  \/ \E t \in Ticks, d \in Devices : UptimeFailed(t, d)

\* the continuations of lines 77-93, which run for a device of operation mode Router
FetchesRouter(in) ==
  \/ \E t \in Ticks, d \in Devices, WANStatus \in in.wan : WANStatusFetched(t, d, WANStatus)
  \/ \E t \in Ticks, d \in Devices : WANStatusFailed(t, d)
  \/ \E t \in Ticks, d \in Devices, trafficData \in in.traffic : TrafficFirstFetched(t, d, trafficData)
  \/ \E t \in Ticks, d \in Devices : TrafficFirstFailed(t, d)
  \/ \E t \in Ticks, d \in Devices : WaitElapsed(t, d)
  \/ \E t \in Ticks, d \in Devices, trafficData \in in.traffic : TrafficSecondFetched(t, d, trafficData)
  \/ \E t \in Ticks, d \in Devices : TrafficSecondFailed(t, d)

\* the continuations of the ticks in progress
Fetches(in) == FetchesInventory(in) \/ FetchesDevice(in) \/ FetchesRouter(in)

NextPolling(in) ==
  \/ \E t \in Ticks : TimerFireAlone(t)
  \/ Fetches(in)

(***************************************************************************)
(* Spec: the router "d1" and the access point "d2" are registered; "d2"    *)
(* has the load, WAN and traffic capabilities.                             *)
(***************************************************************************)
\* what getRouters reports of device d: offline, or online with a firmware version and an
\* update
RouterStatuses(d) == {routerOf(d, FALSE, "1.0", ""), routerOf(d, TRUE, "1.0", "1.1")}

Inputs ==
  [routers |-> inventoriesOf(RouterStatuses("d1"), RouterStatuses("d2")),
   clients |-> {<<client("m1")>>},
   wired |-> {<<client("m1")>>}, w24 |-> {<<>>}, w5 |-> {<<>>},
   scopes |-> {"wired", "2G", "5G"},
   loads |-> {[CPUUsagePercentage |-> 10, MemoryUsagePercentage |-> 20]},
   uptimes |-> {3600},
   wan |-> {[ipaddr |-> "A", status |-> Val(1), type |-> "dhcp"]},
   traffic |-> {[trafficReceived |-> 1000, trafficSent |-> 500]}]

Init ==
  InitPolling(Devices, [d \in Devices |->
    IF d = "d2"
    THEN {"meter_cpu_usage", "meter_mem_used"} \cup WanCapabilities \cup TrafficCapabilities
    ELSE {}])

Next == NextPolling(Inputs)

Spec == Init /\ [][Next]_vars

(***************************************************************************)
(* SpecRouter: only the router "d1" is registered, with every capability.  *)
(***************************************************************************)
\* what getRouters reports of device d: offline, online without firmware information,
\* online with a firmware version and an update
RouterStatusesOne(d) ==
  IF d = "d1"
  THEN {routerOf(d, FALSE, "1.0", ""), routerOf(d, TRUE, "", ""), routerOf(d, TRUE, "1.0", "1.1")}
  ELSE {}

InputsRouter ==
  [routers |-> inventoriesOf(RouterStatusesOne("d1"), RouterStatusesOne("d2")),
   clients |-> {<<>>, <<client("m1")>>},
   wired |-> {<<>>, <<client("m1")>>}, w24 |-> {<<>>, <<client("m2")>>}, w5 |-> {<<>>},
   scopes |-> {"wired", "2G", "5G"},
   loads |-> {[CPUUsagePercentage |-> 10, MemoryUsagePercentage |-> 20],
              [CPUUsagePercentage |-> 30, MemoryUsagePercentage |-> 40]},
   uptimes |-> {3600},
   wan |-> {[ipaddr |-> "A", status |-> Val(1), type |-> "dhcp"]},
   traffic |-> {[trafficReceived |-> 1000, trafficSent |-> 500]}]

InitRouter == InitPolling({"d1"}, [d \in Devices |-> IF d = "d1" THEN Capabilities ELSE {}])

NextRouter == NextPolling(InputsRouter)

SpecRouter == InitRouter /\ [][NextRouter]_vars

(***************************************************************************)
(* SpecTimer: the life of the driver from before onInit to after onUninit, *)
(* with the router "d1" registered.  The interval fires again and again:   *)
(* a tick that can start does start.                                       *)
(***************************************************************************)
\* lines 193-214; the host calls onInit once
OnInit ==
  /\ updateDevicesPollingInterval = "undefined"
  /\ routerIP' = settings.ip
  /\ username' = settings.username
  /\ password' = settings.password
  /\ asusClient' = IF settings.ip # Null /\ settings.username # Null /\ settings.password # Null
                   THEN TRUE ELSE asusClient
  /\ updateDevicesPollingInterval' = "running"
  /\ fired' = <<>>
  /\ UNCHANGED <<diffVars, deviceVars, hostVars, registered, connectedClients, ticks,
                 settings, session, lastCall, wanHistory>>

\* lines 216-223; the host calls onUninit once, after onInit
OnUninit ==
  /\ updateDevicesPollingInterval = "running"
  /\ updateDevicesPollingInterval' = "cleared"
  /\ fired' = <<>>
  /\ UNCHANGED <<diffVars, deviceVars, hostVars, registered, asusClient, connectedClients,
                 ticks, routerIP, username, password, settings, session, lastCall, wanHistory>>

InputsTimer ==
  [routers |-> {<<routerOf("d1", FALSE, "1.0", "")>>, <<routerOf("d1", TRUE, "1.0", "")>>},
   clients |-> {<<client("m1")>>},
   wired |-> {<<client("m1")>>}, w24 |-> {<<>>}, w5 |-> {<<>>},
   scopes |-> {"wired"},
   loads |-> {[CPUUsagePercentage |-> 10, MemoryUsagePercentage |-> 20]},
   uptimes |-> {3600},
   wan |-> {[ipaddr |-> "A", status |-> Val(1), type |-> "dhcp"]},
   traffic |-> {[trafficReceived |-> 1000, trafficSent |-> 500]}]

InitTimer ==
  /\ InitCommon
  /\ oldList = <<>>
  /\ newList = <<>>
  /\ capabilities = [d \in Devices |-> {}]
  /\ operationMode = [d \in Devices |-> IF d = "d1" THEN "Router" ELSE "AccessPoint"]
  /\ registered = {"d1"}
  /\ asusClient = FALSE
  /\ settings \in {NoSettings, StoredSettings}
  /\ routerIP = Val(<<>>)
  /\ username = Val(<<>>)
  /\ password = Val(<<>>)
  /\ updateDevicesPollingInterval = "undefined"

NextTimer ==
  \/ OnInit
  \/ OnUninit
  \/ NextPolling(InputsTimer)

SpecTimer ==
  InitTimer /\ [][NextTimer]_vars /\ WF_vars(\E t \in Ticks : TimerFireAlone(t))

(***************************************************************************)
(* SpecPair: the step handlers router_ip_confirmed and login of the        *)
(* pairing wizard (onPair) and of the repair wizard (onRepair).  A login   *)
(* handler runs in two steps, before and after its await of the probe      *)
(* tempClient.getRouters().                                                *)
(***************************************************************************)
\* a condition that never finds the login failed
failedToLogin_never(routers) == FALSE

\* lines 275 and 350: routers.length === 0
failedToLogin(routers) == Len(routers) = 0

\* what the handler in progress found, for a handler called with nothing in progress
called(kind, handler) ==
  [session EXCEPT !.handler = handler, !.pc = "idle", !.probe = Null, !.result = "none",
                  !.settingsBefore = settings]

\* line 225: a pairing session starts
OnPair ==
  /\ session.pc = "idle"
  /\ session' = [NoSession EXCEPT !.kind = "pair"]
  /\ fired' = <<>>
  /\ UNCHANGED <<diffVars, deviceVars, hostVars, registered, asusClient, connectedClients,
                 ticks, updateDevicesPollingInterval, routerIP, username, password, settings,
                 lastCall, wanHistory>>

\* lines 316-319: a repair session starts
OnRepair ==
  /\ session.pc = "idle"
  /\ session' = [NoSession EXCEPT !.kind = "repair"]
  /\ fired' = <<>>
  /\ UNCHANGED <<diffVars, deviceVars, hostVars, registered, asusClient, connectedClients,
                 ticks, updateDevicesPollingInterval, routerIP, username, password, settings,
                 lastCall, wanHistory>>

\* lines 243-253
PairRouterIPConfirmed(routerIPFromView) ==
  /\ session.kind = "pair" /\ session.pc = "idle"
  /\ IF ipRegexTest(routerIPFromView)
     THEN /\ routerIP' = Val(Http \o routerIPFromView)
          /\ session' = [called("pair", "router_ip_confirmed") EXCEPT
                           !.input = routerIPFromView, !.result = "true"]
     ELSE /\ routerIP' = routerIP
          /\ session' = [called("pair", "router_ip_confirmed") EXCEPT
                           !.input = routerIPFromView, !.result = "false"]
  /\ fired' = <<>>
  /\ UNCHANGED <<diffVars, deviceVars, hostVars, registered, asusClient, connectedClients,
                 ticks, updateDevicesPollingInterval, username, password, settings,
                 lastCall, wanHistory>>

\* lines 255-270: up to the await of the probe
PairLogin(data) ==
  /\ session.kind = "pair" /\ session.pc = "idle"
  /\ username' = Val(trim(data.username))
  /\ password' = Val(data.password)
  /\ session' = [called("pair", "login") EXCEPT !.data = data, !.pc = "probing"]
  /\ fired' = <<>>
  /\ UNCHANGED <<diffVars, deviceVars, hostVars, registered, asusClient, connectedClients,
                 ticks, updateDevicesPollingInterval, routerIP, settings, lastCall, wanHistory>>

\* lines 270-283: the probe threw, or returned routers
PairLoginProbed(outcome) ==
  /\ session.kind = "pair" /\ session.pc = "probing"
  /\ IF outcome.threw
     THEN /\ session' = [session EXCEPT !.pc = "idle", !.probe = Val(outcome),
                                        !.result = "false"]
          /\ settings' = settings
     ELSE IF failedToLogin(outcome.routers)
     THEN /\ session' = [session EXCEPT !.pc = "idle", !.probe = Val(outcome),
                                        !.result = "rejected"]
          /\ settings' = settings
     ELSE /\ session' = [session EXCEPT !.pc = "idle", !.probe = Val(outcome),
                                        !.result = "true"]
          /\ settings' = [ip |-> routerIP, username |-> username, password |-> password]
  /\ fired' = <<>>
  /\ UNCHANGED <<diffVars, deviceVars, hostVars, registered, asusClient, connectedClients,
                 ticks, updateDevicesPollingInterval, routerIP, username, password,
                 lastCall, wanHistory>>

\* lines 322-332
RepairRouterIPConfirmed(routerIPFromView) ==
  /\ session.kind = "repair" /\ session.pc = "idle"
  /\ session' = [called("repair", "router_ip_confirmed") EXCEPT
                   !.input = routerIPFromView,
                   !.newRouterIP = IF ipRegexTest(routerIPFromView)
                                   THEN Http \o routerIPFromView ELSE @,
                   !.result = IF ipRegexTest(routerIPFromView) THEN "true" ELSE "false"]
  /\ fired' = <<>>
  /\ UNCHANGED <<diffVars, deviceVars, hostVars, registered, asusClient, connectedClients,
                 ticks, updateDevicesPollingInterval, routerIP, username, password, settings,
                 lastCall, wanHistory>>

\* lines 334-348: up to the await of the probe
RepairLogin(data) ==
  /\ session.kind = "repair" /\ session.pc = "idle"
  /\ session' = [called("repair", "login") EXCEPT
                   !.data = data, !.pc = "probing",
                   !.newUsername = trim(data.username), !.newPassword = data.password]
  /\ fired' = <<>>
  /\ UNCHANGED <<diffVars, deviceVars, hostVars, registered, asusClient, connectedClients,
                 ticks, updateDevicesPollingInterval, routerIP, username, password, settings,
                 lastCall, wanHistory>>

\* lines 348-375: the probe threw, or returned routers
RepairLoginProbed(outcome) ==
  /\ session.kind = "repair" /\ session.pc = "probing"
  /\ IF outcome.threw \/ failedToLogin(outcome.routers)
     THEN /\ session' = [session EXCEPT !.pc = "idle", !.probe = Val(outcome),
                                        !.result = "rejected"]
          /\ UNCHANGED <<routerIP, username, password, settings>>
     ELSE /\ session' = [session EXCEPT !.pc = "idle", !.probe = Val(outcome),
                                        !.result = "true"]
          /\ routerIP' = Val(session.newRouterIP)
          /\ username' = Val(session.newUsername)
          /\ password' = Val(session.newPassword)
          /\ settings' = [ip |-> Val(session.newRouterIP),
                          username |-> Val(session.newUsername),
                          password |-> Val(session.newPassword)]
  /\ fired' = <<>>
  /\ UNCHANGED <<diffVars, deviceVars, hostVars, registered, asusClient, connectedClients,
                 ticks, updateDevicesPollingInterval, lastCall, wanHistory>>

\* what the user types as the router's address
IPInputs ==
  {<<"1", ".", "2", ".", "3", ".", "4">>,
   <<"1", "0", ".", "0", ".", "0", ".", "2", "5", "5">>,
   <<"2", "5", "6", ".", "1", ".", "1", ".", "1">>,
   <<"0", "1", ".", "2", ".", "3", ".", "4">>,
   <<"1", ".", "2", ".", "3">>,
   <<"1", ".", "2", ".", "3", ".", "4", ".", "5">>,
   <<"1", ".", "2", ".", "3", ".", "x">>,
   <<>>}

\* what the user types as the credentials
LoginData ==
  {[username |-> u, password |-> <<"p">>] : u \in {<<"a">>, <<" ", "a", " ">>}}

\* what the probe gives: an exception, no router, one router
ProbeOutcomes ==
  {[threw |-> TRUE, routers |-> <<>>], [threw |-> FALSE, routers |-> <<>>],
   [threw |-> FALSE, routers |-> <<"d1">>]}

InitPair == InitPolling({}, [d \in Devices |-> {}])

NextPair ==
  \/ OnPair
  \/ OnRepair
  \/ \E routerIPFromView \in IPInputs : PairRouterIPConfirmed(routerIPFromView)
  \/ \E data \in LoginData : PairLogin(data)
  \/ \E outcome \in ProbeOutcomes : PairLoginProbed(outcome)
  \/ \E routerIPFromView \in IPInputs : RepairRouterIPConfirmed(routerIPFromView)
  \/ \E data \in LoginData : RepairLogin(data)
  \/ \E outcome \in ProbeOutcomes : RepairLoginProbed(outcome)

SpecPair == InitPair /\ [][NextPair]_vars

\* the addresses of IPInputs that are dotted quads of numbers from 0 to 255
DottedQuads ==
  {<<"1", ".", "2", ".", "3", ".", "4">>,
   <<"1", "0", ".", "0", ".", "0", ".", "2", "5", "5">>}

\* C15: in both wizards, router_ip_confirmed returns true only for a dotted quad and
\* never writes the settings; login returns true only when its probe returned at least
\* one router, the settings are not written while the probe is awaited, and after a
\* login that did not return true (probe threw, or returned no router) the settings are
\* what the handler found.
C15_FailedStepNeverPersists ==
  /\ session.handler = "router_ip_confirmed" =>
       /\ session.result = "true" <=> session.input \in DottedQuads
       /\ session.result \in {"true", "false"}
       /\ settings = session.settingsBefore
  /\ (session.handler = "login" /\ session.pc = "probing") =>
       settings = session.settingsBefore
  /\ (session.handler = "login" /\ session.pc = "idle") =>
       LET returnedRouters == ~session.probe[1].threw /\ Len(session.probe[1].routers) >= 1
       IN /\ session.result = "true" <=> returnedRouters
          /\ session.result # "true" => settings = session.settingsBefore
          /\ settings # session.settingsBefore => returnedRouters

\* a repair login whose probe found no router, after a pairing had stored credentials
C15_Witness ==
  /\ session.kind = "repair" /\ session.handler = "login" /\ session.pc = "idle"
  /\ session.probe = Val([threw |-> FALSE, routers |-> <<>>]) /\ session.result = "rejected"
  /\ session.newRouterIP = Http \o <<"1", "0", ".", "0", ".", "0", ".", "2", "5", "5">>
  /\ session.newUsername = <<"a">>
  /\ settings = [ip |-> Val(Http \o <<"1", ".", "2", ".", "3", ".", "4">>),
                 username |-> Val(<<"a">>), password |-> Val(<<"p">>)]

(***************************************************************************)
(* SpecSampling: only the router "d1" is registered, with the four traffic *)
(* capabilities; the traffic counters differ from sample to sample.        *)
(***************************************************************************)
InputsSampling ==
  [routers |-> {<<routerOf("d1", TRUE, "", "")>>},
   clients |-> {<<client("m1")>>},
   wired |-> {<<client("m1")>>}, w24 |-> {<<>>}, w5 |-> {<<>>},
   scopes |-> {"wired"},
   loads |-> {[CPUUsagePercentage |-> 10, MemoryUsagePercentage |-> 20]},
   uptimes |-> {3600},
   wan |-> {[ipaddr |-> "A", status |-> Val(1), type |-> "dhcp"]},
   traffic |-> {[trafficReceived |-> 1000, trafficSent |-> 500],
                [trafficReceived |-> 1250, trafficSent |-> 400]}]

InitSampling ==
  /\ InitPolling({"d1"}, [d \in Devices |-> IF d = "d1" THEN TrafficCapabilities ELSE {}])
  /\ asusClient

NextSampling == NextPolling(InputsSampling)

SpecSampling == InitSampling /\ [][NextSampling]_vars

(***************************************************************************)
(* SpecOverlap: the interval fires whether or not the tick before has      *)
(* ended (lines 209-211 start updateStateOfDevices every 60000 ms and wait *)
(* for nothing), so up to MaxTicks ticks are in progress at once.  Only    *)
(* the access point "d2" is registered, for which line 76 skips the WAN    *)
(* and traffic steps.                                                      *)
(***************************************************************************)
InputsOverlap ==
  [routers |-> {<<routerOf("d2", TRUE, "", "")>>},
   clients |-> {<<client("m1")>>},
   wired |-> {<<>>, <<client("m1")>>}, w24 |-> {<<>>}, w5 |-> {<<>>},
   scopes |-> {"wired"},
   loads |-> {[CPUUsagePercentage |-> 10, MemoryUsagePercentage |-> 20]},
   uptimes |-> {3600}]

InitOverlap ==
  /\ InitPolling({"d2"}, [d \in Devices |-> IF d = "d2" THEN {"meter_online_devices"} ELSE {}])
  /\ asusClient

NextOverlap ==
  \/ \E t \in Ticks : TimerFire(t)
  \/ FetchesInventory(InputsOverlap)
  \/ FetchesDevice(InputsOverlap)

SpecOverlap == InitOverlap /\ [][NextOverlap]_vars

(***************************************************************************)
(* SpecInventory: lines 23-37 of overlapping ticks; no device is           *)
(* registered, so that getDevices() of lines 32 and 39 is empty.           *)
(***************************************************************************)
InputsInventory ==
  [routers |-> {<<>>, <<routerOf("d1", TRUE, "1.0", "")>>},
   clients |-> {<<>>, <<client("m1")>>, <<client("m1"), client("m2")>>, <<client("m2")>>}]

InitInventory ==
  /\ InitPolling({}, [d \in Devices |-> {}])
  /\ asusClient

NextInventory ==
  \/ \E t \in Ticks : TimerFire(t)
  \/ FetchesInventory(InputsInventory)

SpecInventory == InitInventory /\ [][NextInventory]_vars

(***************************************************************************)
(* The claims about a tick                                                 *)
(***************************************************************************)
\* C3: in a tick whose inventory fetch (getRouters or getAllClients) throws, every
\* registered device is set unavailable with the reason of line 32, and the tick fires no
\* network card, sends no request for a device and calls no method of a device.
C3_InventoryFailureAbortsTick ==
  \A t \in Ticks :
    ticks[t].threw =>
      /\ ticks[t].notified = 0
      /\ \A d \in registered :
           /\ ~available[d]
           /\ unavailableMessage[d] = Val(NetworkNotAvailable)
           /\ ticks[t].dev[d].issued = {}
           /\ ticks[t].dev[d].did = {}
           /\ ticks[t].dev[d].clients = "none"
           /\ ticks[t].dev[d].pc = "none"

\* getAllClients throws after an earlier tick had polled both devices
C3_Witness ==
  \E t \in Ticks :
    /\ ticks[t].threw
    /\ firmwareVersion["d1"] = "1.0"
    /\ capabilityValue["d2"]["meter_cpu_usage"] = Val(10)
    /\ connectedClients = <<client("m1")>>
    /\ \A d \in registered : ~available[d] /\ unavailableMessage[d] = Val(NetworkNotAvailable)

\* C4 as stated: at the end of a device's processing, once all its fetches of the tick
\* have settled, the warning is set if and only if one of them failed.
C4_WarningIffSubFetchFailed ==
  \A t \in Ticks, d \in registered :
    (ticks[t].dev[d].pc = "done" /\ ticks[t].dev[d].clients # "pending") =>
      (warning[d] # Null <=> ticks[t].dev[d].failed # {})

\* C5: when one of the three client-list fetches of a device fails in a tick and its load
\* fetch succeeds, the device stays available, its three snapshots and meter_online_devices
\* are as the tick found them, the tick fires no access-point card for it, and the cpu and
\* memory capabilities hold the fetched load.
C5_ClientFailureLeavesSnapshots ==
  \A t \in Ticks, d \in registered :
    LET rec == ticks[t].dev[d]
    IN (rec.clients = "rejected" /\ rec.failed \cap {"wired", "2G", "5G"} # {}
        /\ "setLoad" \in rec.did) =>
         /\ available[d]
         /\ wiredClients[d] = rec.before[1].wired
         /\ wireless24GClients[d] = rec.before[1].w24
         /\ wireless5GClients[d] = rec.before[1].w5
         /\ capabilityValue[d]["meter_online_devices"] = rec.before[1].meter
         /\ rec.cards = 0
         /\ "setConnectedClients" \notin rec.did
         /\ hasCapability(d, "meter_cpu_usage") =>
              capabilityValue[d]["meter_cpu_usage"] = Val(rec.load[1].CPUUsagePercentage)
         /\ hasCapability(d, "meter_mem_used") =>
              capabilityValue[d]["meter_mem_used"] = Val(rec.load[1].MemoryUsagePercentage)

\* the 5G fetch fails in a tick that found two clients stored and a load of 10/20, and
\* the load fetch brings 30/40
C5_Witness ==
  \E t \in Ticks :
    LET rec == ticks[t].dev["d1"]
    IN /\ rec.clients = "rejected" /\ rec.failed = {"5G"}
       /\ rec.pc = "done"
       /\ rec.before[1].wired = <<client("m1")>> /\ rec.before[1].w24 = <<client("m2")>>
       /\ rec.before[1].meter = Val(2)
       /\ wiredClients["d1"] = <<client("m1")>> /\ wireless24GClients["d1"] = <<client("m2")>>
       /\ capabilityValue["d1"]["meter_online_devices"] = Val(2)
       /\ capabilityValue["d1"]["meter_cpu_usage"] = Val(30)
       /\ capabilityValue["d1"]["meter_mem_used"] = Val(40)
       /\ available["d1"]
       /\ warning["d1"] # Null

requestsOf(mode) ==
  {"clients", "load", "uptime"} \cup (IF mode = "Router" THEN {"wan", "traffic1"} ELSE {})

\* C11: in a tick, whatever fetches fail for a device or for another device, every
\* registered device's callback is started, every online device whose callback has ended
\* had each of its fetches (client lists, load, uptime and, for a router, WAN status and
\* traffic) requested, and each fetch of it that did not fail was projected on the device:
\* it was set available and its client sets, load and uptime were updated.
C11_FailuresDoNotBlock ==
  \A t \in Ticks, d \in registered :
    LET rec == ticks[t].dev[d]
    IN /\ ticks[t].pc = "devices" => rec.pc # "none"
       /\ rec.pc = "done" =>
            /\ requestsOf(operationMode[d]) \subseteq rec.issued
            /\ "setAvailable" \in rec.did
            /\ "load" \notin rec.failed => "setLoad" \in rec.did
            /\ "uptime" \notin rec.failed => "setUptimeDaysBySeconds" \in rec.did
            /\ (operationMode[d] = "Router" /\ "wan" \notin rec.failed) =>
                  "setWANStatus" \in rec.did
            /\ rec.clients = "resolved" => "setConnectedClients" \in rec.did

\* every fetch of the router fails, and in the same tick the access point gets its
\* client sets, load and uptime
C11_Witness ==
  \E t \in Ticks :
    /\ ticks[t].dev["d1"].pc = "done"
    /\ ticks[t].dev["d1"].failed = {"wired", "load", "uptime", "wan", "traffic"}
    /\ ticks[t].dev["d1"].issued = {"clients", "load", "uptime", "wan", "traffic1"}
    /\ ticks[t].dev["d2"].pc = "done"
    /\ ticks[t].dev["d2"].failed = {}
    /\ {"setAvailable", "setConnectedClients", "setLoad", "setUptimeDaysBySeconds"}
          \subseteq ticks[t].dev["d2"].did
    /\ available["d2"]
    /\ wiredClients["d2"] = <<client("m1")>>
    /\ capabilityValue["d2"]["meter_cpu_usage"] = Val(10)
    /\ warning["d1"] # Null /\ warning["d2"] = Null

\* C12: when the callback of an online device has ended in a tick in which every fetch of
\* the device succeeded, the device has no warning, whether or not it had one when the
\* tick started.
C12_WarningClearedOnFullSuccess ==
  \A t \in Ticks, d \in registered :
    LET rec == ticks[t].dev[d]
    IN (rec.pc = "done" /\ rec.failed = {} /\ rec.clients = "resolved") => warning[d] = Null

\* the router had the warning when the tick started, and every fetch of the tick succeeded
C12_Witness ==
  \E t \in Ticks :
    LET rec == ticks[t].dev["d1"]
    IN /\ rec.pc = "done" /\ rec.failed = {} /\ rec.clients = "resolved"
       /\ rec.issued = {"clients", "load", "uptime", "wan", "traffic1", "traffic2"}
       /\ rec.before[1].warning = Val(FailedToRetrieve)
       /\ warning["d1"] = Null

\* C13 as stated: while a tick waits for its inventory fetch, between its read of the
\* stored global snapshot (line 25) and its write of the fetched one (line 29), the
\* stored snapshot is still the one the tick read, also when another tick is in
\* progress; so the diff of lines 36-37 compares with the snapshot stored last.
C13_NoWriteBetweenReadAndStore ==
  \A t \in Ticks :
    ticks[t].pc \in {"getRouters", "getAllClients"} =>
      ticks[t].oldConnectedClients = connectedClients

\* C14: whenever the interval is set and no tick is in progress, whatever the outcome of
\* the ticks before, a tick starts or onUninit clears the interval; and the step in which
\* a tick gets its inventory sets available every registered device that the inventory
\* lists online, also one that a failed inventory fetch had set unavailable.
C14_TimerKeepsFiring ==
  /\ (updateDevicesPollingInterval = "running" /\ \A t \in Ticks : settled(t))
       ~> (updateDevicesPollingInterval = "cleared" \/ \E t \in Ticks : ~settled(t))
  /\ [][\A t \in Ticks, d \in registered :
          (/\ ticks[t].pc = "getAllClients" /\ ticks'[t].pc = "devices"
           /\ unavailableMessage[d] = Val(NetworkNotAvailable)
           /\ \E i \in 1..Len(ticks'[t].routers[1]) :
                 ticks'[t].routers[1][i].mac = d /\ ticks'[t].routers[1][i].online)
          => (available'[d] /\ unavailableMessage'[d] = Null)]_vars

\* a tick whose inventory fetch failed has set the router unavailable, and the interval
\* has started the next tick, whose getRouters lists the router online
C14_Witness ==
  \E t \in Ticks :
    /\ updateDevicesPollingInterval = "running"
    /\ ticks[t].pc = "getAllClients"
    /\ isOnline(find(ticks[t].routers[1], "d1"))
    /\ ~available["d1"] /\ unavailableMessage["d1"] = Val(NetworkNotAvailable)
    /\ firmwareVersion["d1"] = "1.0"

\* the cards of one scope for a change of its snapshot from old to new: the departed
\* clients in the order of old, then the arrived clients in the order of new
scopeCards(disconnected, connected, d, old, new) ==
  LET departed == SelectSeq(old, LAMBDA c : c.mac \notin macsOf(new))
      arrived == SelectSeq(new, LAMBDA c : c.mac \notin macsOf(old))
  IN    [i \in 1..Len(departed) |-> <<disconnected, d, getConnectedDisconnectedToken(departed[i])>>]
     \o [i \in 1..Len(arrived) |-> <<connected, d, getConnectedDisconnectedToken(arrived[i])>>]

\* C17: in every step in which a setConnectedClients call of a device runs, with ticks
\* overlapping in any way, the cards fired are, for the three scopes together and for
\* each scope, those of the departed and arrived clients between the snapshots stored
\* just before the step (by the call that ran before it) and the lists the step stores.
C17_CallDiffsAgainstPrecedingCall ==
  [][\A t \in Ticks, d \in registered :
       (ticks[t].dev[d].clients = "pending" /\ ticks'[t].dev[d].clients = "resolved") =>
         fired' =
              scopeCards("device-disconnected-from-access-point",
                         "device-connected-to-access-point", d,
                         concat(wiredClients[d], wireless24GClients[d], wireless5GClients[d]),
                         concat(wiredClients'[d], wireless24GClients'[d], wireless5GClients'[d]))
           \o scopeCards("wired-device-disconnected-from-access-point",
                         "wired-device-connected-to-access-point", d,
                         wiredClients[d], wiredClients'[d])
           \o scopeCards("24g-device-disconnected-from-access-point",
                         "24g-device-connected-to-access-point", d,
                         wireless24GClients[d], wireless24GClients'[d])
           \o scopeCards("5g-device-disconnected-from-access-point",
                         "5g-device-connected-to-access-point", d,
                         wireless5GClients[d], wireless5GClients'[d])]_vars

\* two ticks in progress both found the wired snapshot empty; the call of one stored m1
\* and the call of the other, storing the empty list, fired the departure of m1
C17_Witness ==
  /\ ticks[1].pc = "devices" /\ ticks[2].pc = "devices"
  /\ ticks[1].dev["d2"].clients = "resolved" /\ ticks[2].dev["d2"].clients = "resolved"
  /\ ticks[1].dev["d2"].before[1].wired = <<>> /\ ticks[2].dev["d2"].before[1].wired = <<>>
  /\ ticks[1].dev["d2"].cards = 2 /\ ticks[2].dev["d2"].cards = 2
  /\ wiredClients["d2"] = <<>>
  /\ Len(fired) = 2
  /\ fired[2][1] = "wired-device-disconnected-from-access-point"
  /\ capabilityValue["d2"]["meter_online_devices"] = Val(0)

\* C19: a tick requests the WAN status and the traffic samples of a device only if its
\* stored operation mode is Router; for a device of another operation mode it requests
\* neither, calls neither setWANStatus nor setTrafficValues, sees no WAN or traffic
\* failure (none can clear its flag), and the WAN and traffic capabilities the device has
\* are never written.
C19_WanAndTrafficOnlyForRouter ==
  \A t \in Ticks, d \in registered :
    LET rec == ticks[t].dev[d]
    IN operationMode[d] # "Router" =>
         /\ rec.issued \cap {"wan", "traffic1", "traffic2"} = {}
         /\ rec.did \cap {"setWANStatus", "setTrafficValues"} = {}
         /\ rec.failed \cap {"wan", "traffic"} = {}
         /\ rec.pc \notin {"wan", "traffic1", "wait", "traffic2"}
         /\ rec.trafficDataFirst = Null
         /\ \A cap \in WanCapabilities \cup TrafficCapabilities : capabilityValue[d][cap] = Null

\* in one tick the router got its WAN status and both traffic samples, and the access
\* point, which has the WAN and traffic capabilities, ended after its uptime
C19_Witness ==
  \E t \in Ticks :
    /\ ticks[t].dev["d1"].pc = "done"
    /\ {"setWANStatus", "setTrafficValues"} \subseteq ticks[t].dev["d1"].did
    /\ ticks[t].dev["d1"].issued = {"clients", "load", "uptime", "wan", "traffic1", "traffic2"}
    /\ ticks[t].dev["d2"].pc = "done"
    /\ ticks[t].dev["d2"].issued = {"clients", "load", "uptime"}
    /\ "setUptimeDaysBySeconds" \in ticks[t].dev["d2"].did
    /\ "external_ip" \in capabilities["d2"] /\ capabilityValue["d2"]["external_ip"] = Null
    /\ capabilityValue["d2"]["meter_cpu_usage"] = Val(10)
    /\ warning["d2"] = Null

\* C20: in the traffic step of a device, the second sample is requested only when the
\* first one has been returned and the wait has elapsed; when the first request fails
\* the second one is not sent; and when one of the two requests fails, setTrafficValues
\* is not called and the four traffic capabilities are as the tick found them.
C20_TrafficSamplesInOrder ==
  \A t \in Ticks, d \in registered :
    LET rec == ticks[t].dev[d]
    IN /\ "traffic2" \in rec.issued =>
            /\ "traffic1" \in rec.issued
            /\ rec.trafficDataFirst # Null
            /\ rec.pc \in {"traffic2", "done"}
       /\ rec.pc = "wait" => (rec.trafficDataFirst # Null /\ "traffic2" \notin rec.issued)
       /\ rec.pc = "traffic1" => (rec.trafficDataFirst = Null /\ "traffic2" \notin rec.issued)
       /\ ("traffic" \in rec.failed /\ rec.trafficDataFirst = Null) =>
            "traffic2" \notin rec.issued
       /\ "traffic" \in rec.failed =>
            /\ "setTrafficValues" \notin rec.did
            /\ \A cap \in TrafficCapabilities :
                 capabilityValue[d][cap] = rec.before[1].traffic[cap]

\* a tick found the totals of an earlier tick stored; its first sample brought other
\* counters, its second request failed, and the stored values are those of the earlier tick
C20_Witness ==
  \E t \in Ticks :
    LET rec == ticks[t].dev["d1"]
    IN /\ rec.pc = "done" /\ rec.failed = {"traffic"}
       /\ rec.issued = {"clients", "load", "uptime", "wan", "traffic1", "traffic2"}
       /\ rec.trafficDataFirst = Val([trafficReceived |-> 1250, trafficSent |-> 400])
       /\ rec.before[1].traffic["traffic_total_received"] = Val(1000)
       /\ capabilityValue["d1"]["traffic_total_received"] = Val(1000)
       /\ capabilityValue["d1"]["realtime_download"] = Val(-250)
       /\ warning["d1"] # Null

(***************************************************************************)
(* Claims about the cards of one setConnectedClients call (SpecClients).   *)
(***************************************************************************)
\* the scoped cards of the three bands, in the order of the lists of a call
Bands == 1..3
DisconnectCard == <<"wired-device-disconnected-from-access-point",
                    "24g-device-disconnected-from-access-point",
                    "5g-device-disconnected-from-access-point">>
ConnectCard == <<"wired-device-connected-to-access-point",
                 "24g-device-connected-to-access-point",
                 "5g-device-connected-to-access-point">>

\* how many times the last step fired card for the client with mac m
firedFor(card, m) ==
  Cardinality({i \in 1..Len(fired) : fired[i][1] = card /\ fired[i][3].mac = m})

\* how many entries of list have mac m
entriesOf(list, m) == Cardinality({i \in 1..Len(list) : list[i].mac = m})

\* C21 as stated: a client that is in the snapshot of one band before a setConnectedClients
\* call and in the snapshot of another band after it gets exactly one disconnect card of
\* the old band and exactly one connect card of the new band, whatever else lists it.
C21_AnyBandChangeFiresOnePair ==
  lastCall.op = "setConnectedClients" =>
    \A m \in Macs, a \in Bands, b \in Bands :
      (/\ a # b
       /\ m \in macsOf(lastCall.pre[a])
       /\ m \in macsOf(lastCall.args[b])) =>
        /\ firedFor(DisconnectCard[a], m) = 1
        /\ firedFor(ConnectCard[b], m) = 1

\* C21, amended: a client that moves between bands in one setConnectedClients call (one
\* entry in the old band and none in the new band before the call, none in the old band
\* and one entry in the new band after it) gets exactly one disconnect card of the old
\* band and exactly one connect card of the new band.
C21_BandMoveFiresOnePair ==
  lastCall.op = "setConnectedClients" =>
    \A m \in Macs, a \in Bands, b \in Bands :
      (/\ a # b
       /\ entriesOf(lastCall.pre[a], m) = 1
       /\ entriesOf(lastCall.pre[b], m) = 0
       /\ entriesOf(lastCall.args[a], m) = 0
       /\ entriesOf(lastCall.args[b], m) = 1) =>
        /\ firedFor(DisconnectCard[a], m) = 1
        /\ firedFor(ConnectCard[b], m) = 1

\* m1 was wired and is on 2.4 GHz after the call: one wired disconnect, one 2.4 GHz connect
C21_Witness ==
  /\ lastCall.op = "setConnectedClients"
  /\ lastCall.pre = <<<<client("m1")>>, <<>>, <<>>>>
  /\ lastCall.args = <<<<>>, <<client("m1")>>, <<>>>>
  /\ firedFor("wired-device-disconnected-from-access-point", "m1") = 1
  /\ firedFor("24g-device-connected-to-access-point", "m1") = 1
  /\ wireless24GClients["d1"] = <<client("m1")>>

(***************************************************************************)
(* SpecFirstPoll: the access point "d2" alone, polled from its creation on *)
(* by ticks that follow one another; the inventory and the three client    *)
(* lists vary and every fetch may fail.                                    *)
(***************************************************************************)
InputsFirstPoll ==
  [routers |-> {<<routerOf("d2", TRUE, "", "")>>},
   clients |-> {<<client("m1")>>, <<client("m1"), client("m2")>>},
   wired |-> {<<>>, <<client("m1")>>}, w24 |-> {<<>>, <<client("m2")>>},
   w5 |-> {<<>>, <<client("m1")>>},
   scopes |-> {"wired"},
   loads |-> {[CPUUsagePercentage |-> 10, MemoryUsagePercentage |-> 20]},
   uptimes |-> {3600}]

InitFirstPoll ==
  /\ InitPolling({"d2"}, [d \in Devices |-> {}])
  /\ asusClient

NextFirstPoll ==
  \/ \E t \in Ticks : TimerFireAlone(t)
  \/ FetchesInventory(InputsFirstPoll)
  \/ FetchesDevice(InputsFirstPoll)

SpecFirstPoll == InitFirstPoll /\ [][NextFirstPoll]_vars

\* one card per entry of list
cardsOf(card, d, list) == [i \in 1..Len(list) |-> <<card, d, list[i]>>]

\* C22: a poll that finds nothing stored treats every fetched client as arrived. The
\* inventory fetch of a tick that resolves while the global snapshot is empty fires
\* device-connected-to-network once for every client of the fetched list, and a
\* setConnectedClients call on a device whose three snapshots are empty fires the
\* any-access-point connect card and the connect card of its band once for every entry
\* of the three lists, and no disconnect card.
C22_FirstPollFiresArrivals ==
  [][/\ \A t \in Ticks :
          (/\ ticks[t].pc = "getAllClients"
           /\ ticks'[t].pc = "devices"
           /\ connectedClients = <<>>) =>
            fired' = cardsOf("device-connected-to-network", "", connectedClients')
     /\ \A t \in Ticks, d \in registered :
          (/\ ticks[t].dev[d].clients = "pending"
           /\ ticks'[t].dev[d].clients = "resolved"
           /\ wiredClients[d] = <<>>
           /\ wireless24GClients[d] = <<>>
           /\ wireless5GClients[d] = <<>>) =>
            fired' =
                 cardsOf("device-connected-to-access-point", d,
                         wiredClients'[d] \o wireless24GClients'[d] \o wireless5GClients'[d])
              \o cardsOf("wired-device-connected-to-access-point", d, wiredClients'[d])
              \o cardsOf("24g-device-connected-to-access-point", d, wireless24GClients'[d])
              \o cardsOf("5g-device-connected-to-access-point", d, wireless5GClients'[d])]_vars

\* the first tick found m1 and m2 on the network (two network cards) and its
\* setConnectedClients call, the first of "d2", fired four connect cards: m1 wired and
\* m2 on 2.4 GHz, each with its any-access-point card
C22_Witness ==
  /\ ticks[1].oldConnectedClients = <<>>
  /\ ticks[1].notified = 2
  /\ connectedClients = <<client("m1"), client("m2")>>
  /\ ticks[1].dev["d2"].clients = "resolved"
  /\ ticks[1].dev["d2"].cards = 4
  /\ ticks[2].pc = "idle"
  /\ fired = <<<<"device-connected-to-access-point", "d2", client("m1")>>,
               <<"device-connected-to-access-point", "d2", client("m2")>>,
               <<"wired-device-connected-to-access-point", "d2", client("m1")>>,
               <<"24g-device-connected-to-access-point", "d2", client("m2")>>>>

(***************************************************************************)
(* Claims about the network cards of successive ticks (SpecInventory).     *)
(***************************************************************************)
\* C23: the network cards of one client alternate, whatever way the ticks follow or
\* overlap one another: when a step fires device-connected-to-network for a mac, the
\* next step does not fire it for the same mac again without firing
\* device-disconnected-from-network for it, and the same with the two cards exchanged.
\* No fetched global snapshot of SpecInventory names a mac twice.
C23_NetworkCardsAlternate ==
  [][\A m \in Macs :
       /\ (/\ firedFor("device-connected-to-network", m) > 0
           /\ firedFor("device-connected-to-network", m)' > 0) =>
             firedFor("device-disconnected-from-network", m)' > 0
       /\ (/\ firedFor("device-disconnected-from-network", m) > 0
           /\ firedFor("device-disconnected-from-network", m)' > 0) =>
             firedFor("device-connected-to-network", m)' > 0]_vars

\* C23, second part: a tick whose inventory fetch throws leaves the stored global
\* snapshot as it was.
C23_FailedFetchKeepsSnapshot ==
  [][\A t \in Ticks :
       (~ticks[t].threw /\ ticks'[t].threw) => connectedClients' = connectedClients]_vars

(***************************************************************************)
(* SpecCondition: the run listener of the condition card                   *)
(* device-is-connected-to-access-point, run for any client between the     *)
(* setConnectedClients calls of the device "d1".                           *)
(***************************************************************************)
getWiredClients(d) == wiredClients[d]
getWireless24GClients(d) == wireless24GClients[d]
getWireless5GClients(d) == wireless5GClients[d]

\* Array.prototype.find with the callback c => c.mac === mac: the first entry with that
\* mac, or undefined
RECURSIVE findMacFrom(_, _, _)
findMacFrom(list, mac, i) ==
  IF i > Len(list) THEN Null
  ELSE IF list[i].mac = mac THEN Val(list[i])
  ELSE findMacFrom(list, mac, i + 1)

findMac(list, mac) == findMacFrom(list, mac, 1)

\* the callback of lines 125-126, whose body reaches to the parenthesis that closes line
\* 126: wl2gclient.mac === mac || getWireless5GClients().find(...); an entry is truthy,
\* undefined is falsy
wl2gCallback(d, wl2gclient, mac) ==
  wl2gclient.mac = mac \/ findMac(getWireless5GClients(d), mac) # Null

\* Array.prototype.find over the 2.4 GHz snapshot with that callback; the callback is not
\* called for an empty array
RECURSIVE findWireless24GFrom(_, _, _)
findWireless24GFrom(d, mac, i) ==
  IF i > Len(getWireless24GClients(d)) THEN Null
  ELSE IF wl2gCallback(d, getWireless24GClients(d)[i], mac)
       THEN Val(getWireless24GClients(d)[i])
  ELSE findWireless24GFrom(d, mac, i + 1)

\* lines 124-130
conditionDeviceIsConnectedToAccessPoint(d, mac) ==
  IF \/ findMac(getWiredClients(d), mac) # Null
     \/ findWireless24GFrom(d, mac, 1) # Null
  THEN TRUE
  ELSE FALSE

\* the flow engine runs the listener for device d and the client with mac
RunCondition(d, mac) ==
  /\ d \in registered
  /\ lastCall' = [op |-> "device-is-connected-to-access-point", dev |-> d, args |-> mac,
                  pre |-> <<>>, returned |-> conditionDeviceIsConnectedToAccessPoint(d, mac)]
  /\ fired' = <<>>
  /\ UNCHANGED <<diffVars, deviceVars, hostVars, driverVars, wanHistory>>

NextCondition ==
  \/ \E wired \in WiredLists, w24 \in Wireless24GLists, w5 \in Wireless5GLists :
       CallSetConnectedClients("d1", wired, w24, w5)
  \/ \E mac \in Macs : RunCondition("d1", mac)

SpecCondition == InitClients /\ [][NextCondition]_vars

\* C24: the condition device-is-connected-to-access-point returns true exactly when the
\* mac of the selected client is the mac of an entry of the wired, the 2.4 GHz or the
\* 5 GHz snapshot of the device; so true for a client that is only in the 5 GHz snapshot
\* while the 2.4 GHz snapshot is empty.
C24_TrueIffInSomeSnapshot ==
  lastCall.op = "device-is-connected-to-access-point" =>
    (lastCall.returned <=>
       lastCall.args \in macsOf(wiredClients["d1"]) \cup macsOf(wireless24GClients["d1"])
                           \cup macsOf(wireless5GClients["d1"]))

(***************************************************************************)
(* Claims about the repair wizard (SpecPair).                              *)
(***************************************************************************)
\* C25: once the login step of a repair has returned true, the driver has a client, the
\* one the ticks poll through (line 26), and its fields and the settings hold the
\* credentials of that step; this also on a driver that had no client before the repair
\* because it started without stored settings.
C25_ClientAfterRepair ==
  (session.kind = "repair" /\ session.handler = "login" /\ session.result = "true") =>
    /\ asusClient
    /\ routerIP = Val(session.newRouterIP)
    /\ username = Val(session.newUsername)
    /\ password = Val(session.newPassword)
    /\ settings = [ip |-> routerIP, username |-> username, password |-> password]

(***************************************************************************)
(* Claims about the any-access-point cards of a call (SpecClients).        *)
(***************************************************************************)
\* the macs of the three lists of a call together
macsOfAll(lists) == macsOf(lists[1]) \cup macsOf(lists[2]) \cup macsOf(lists[3])

\* C26: the any-access-point cards of a setConnectedClients call are the diff of old wired
\* + old 2.4 GHz + old 5 GHz against new wired + new 2.4 GHz + new 5 GHz: the connect card
\* fires for a client exactly when its mac is in none of the three old snapshots and in
\* one of the new ones, the disconnect card exactly when it is in one of the old and in
\* none of the new ones, once for every entry of the concatenation that names it, so
\* neither fires for a client that only changes band.
C26_AnyAccessPointCardsDiffTheUnion ==
  lastCall.op = "setConnectedClients" =>
    \A m \in Macs :
      /\ firedFor("device-connected-to-access-point", m) > 0 <=>
            (m \notin macsOfAll(lastCall.pre) /\ m \in macsOfAll(lastCall.args))
      /\ firedFor("device-disconnected-from-access-point", m) > 0 <=>
            (m \in macsOfAll(lastCall.pre) /\ m \notin macsOfAll(lastCall.args))
      /\ firedFor("device-connected-to-access-point", m) \in
            {0, entriesOf(concat(lastCall.args[1], lastCall.args[2], lastCall.args[3]), m)}
      /\ firedFor("device-disconnected-from-access-point", m) \in
            {0, entriesOf(concat(lastCall.pre[1], lastCall.pre[2], lastCall.pre[3]), m)}

\* in one call m2 went from the wired list to the 5 GHz list, m1 left and m3 came: the
\* any-access-point cards are the disconnect of m1 and the connect of m3, none for m2
C26_Witness ==
  /\ lastCall.op = "setConnectedClients"
  /\ lastCall.pre = <<<<client("m1"), client("m2")>>, <<>>, <<>>>>
  /\ lastCall.args = <<<<>>, <<client("m3")>>, <<client("m2")>>>>
  /\ firedFor("device-disconnected-from-access-point", "m1") = 1
  /\ firedFor("device-connected-to-access-point", "m3") = 1
  /\ firedFor("device-disconnected-from-access-point", "m2") = 0
  /\ firedFor("device-connected-to-access-point", "m2") = 0
  /\ firedFor("wired-device-disconnected-from-access-point", "m2") = 1
  /\ firedFor("5g-device-connected-to-access-point", "m2") = 1

====
